---- MODULE Spec2Model ----
(***************************************************************************)
(* The two converters of the repository as one state machine:              *)
(*   - the Angular converter (src/index.js): convertAngularToReact, with   *)
(*     scanProject, groupComponentFiles, convertComponents,                *)
(*     convertServices, convertPipes, generateRouterStructure and          *)
(*     writeOutputFiles;                                                   *)
(*   - the AngularJS converter (src/unnamed/part_000): main, with          *)
(*     scanAngularJSProject, groupAngularJSFiles, convertControllers,      *)
(*     convertDirectives, convertServices, convertFilters and              *)
(*     generateReactRouter.                                                *)
(*                                                                         *)
(* Strings are sequences of tokens.  A path is the sequence of its         *)
(* separators and name pieces, "/proj/foo.component.ts" being              *)
(* <<"/","proj","/","foo",".","component",".","ts">>.  The names used      *)
(* here are chosen so that every substring the code searches a path for    *)
(* lies on token boundaries (the one search inside a name piece, for       *)
(* 'routing', is IncludesRouting), so startsWith, endsWith, includes and   *)
(* replace on the strings are the same operations on the token             *)
(* sequences.  A file's content is the sequence of the lexemes the code    *)
(* searches for (see Call, Prop, Word).                                    *)
(***************************************************************************)
EXTENDS Naturals, Sequences, FiniteSets, TLC

\* ---------------------------------------------------------------- bounds

\* The most entries a directory of the scanned tree holds.
MaxEntries == 3

\* The most units handed to convertComponents when it is called directly.
MaxUnits == 2

\* ------------------------------------------------------- token sequences

\* String.prototype.startsWith
StartsWith(s, p) ==
  /\ Len(p) <= Len(s)
  /\ SubSeq(s, 1, Len(p)) = p

\* String.prototype.endsWith
EndsWith(s, p) ==
  /\ Len(p) <= Len(s)
  /\ SubSeq(s, Len(s) - Len(p) + 1, Len(s)) = p

\* String.prototype.indexOf, 1-based; 0 when p does not occur in s
IndexOf(s, p) ==
  LET at == {i \in 1..(Len(s) + 1) : i + Len(p) - 1 <= Len(s)
                                     /\ SubSeq(s, i, i + Len(p) - 1) = p}
  IN IF at = {} THEN 0 ELSE CHOOSE i \in at : \A j \in at : i <= j

\* String.prototype.includes
Includes(s, p) == IndexOf(s, p) # 0

\* String.prototype.replace with a string pattern: the first occurrence only
ReplaceFirst(s, p, r) ==
  LET i == IndexOf(s, p)
  IN IF i = 0 THEN s
     ELSE SubSeq(s, 1, i - 1) \o r \o SubSeq(s, i + Len(p), Len(s))

\* the last position of token t in s; 0 when t does not occur
LastIndexOfTok(s, t) ==
  LET at == {i \in 1..Len(s) : s[i] = t}
  IN IF at = {} THEN 0 ELSE CHOOSE i \in at : \A j \in at : j <= i

\* String.prototype.toLowerCase, token by token
LowerTok(t) ==
  CASE t = "Controller" -> "controller"
    [] t = "Model" -> "model"
    [] OTHER -> t

ToLowerCase(s) == [i \in 1..Len(s) |-> LowerTok(s[i])]

\* ------------------------------------------------------------ node's path

\* path.basename(p)
PathBasename(p) == SubSeq(p, LastIndexOfTok(p, "/") + 1, Len(p))

\* path.basename(p, ext): the extension is cut unless it is the whole name
PathBasenameExt(p, ext) ==
  LET b == PathBasename(p)
  IN IF EndsWith(b, ext) /\ b # ext
     THEN SubSeq(b, 1, Len(b) - Len(ext))
     ELSE b

\* path.extname(p): from the last dot of the base name, unless that dot is
\* the base name's first character
PathExtname(p) ==
  LET b == PathBasename(p)
      d == LastIndexOfTok(b, ".")
  IN IF d <= 1 THEN <<>> ELSE SubSeq(b, d, Len(b))

\* path.dirname(p)
PathDirname(p) ==
  LET i == LastIndexOfTok(p, "/")
  IN IF i = 0 THEN <<".">>
     ELSE IF i = 1 THEN <<"/">>
     ELSE SubSeq(p, 1, i - 1)

\* path.join(dir, name): joined with "/" and normalised, which drops a
\* leading "./"
PathJoin(dir, name) ==
  LET j == dir \o <<"/">> \o name
  IN IF StartsWith(j, <<".", "/">>) THEN SubSeq(j, 3, Len(j)) ELSE j

\* ---------------------------------------------------------------- content

\* ".fn('arg'" : a registration call whose first argument is a quoted name
Call(fn, arg) == [t |-> "call", k |-> fn, v |-> <<arg>>]

\* ".fn(" followed by something that is not a quoted name
CallNoName(fn) == [t |-> "call", k |-> fn, v |-> <<>>]

\* "key: 'value'" : a property assigned a quoted path
Prop(key, val) == [t |-> "prop", k |-> key, v |-> val]

\* any other word of the text, such as $compile or BehaviorSubject
Word(w) == [t |-> "word", k |-> w, v |-> <<>>]

\* content.includes('.fn(')
IncludesCall(content, fn) ==
  \E i \in 1..Len(content) : content[i].t = "call" /\ content[i].k = fn

\* content.includes(word)
IncludesWord(content, w) ==
  \E i \in 1..Len(content) : content[i].t = "word" /\ content[i].k = w

\* content.match(/\.fn\(['"]([^'"]+)['"]/): group 1 of the first match, or
\* <<>> when the pattern does not match
MatchCall(content, fn) ==
  LET at == {i \in 1..Len(content) :
               content[i].t = "call" /\ content[i].k = fn /\ content[i].v # <<>>}
  IN IF at = {} THEN <<>>
     ELSE content[CHOOSE i \in at : \A j \in at : i <= j].v

\* content.match(/key\s*:\s*['"]([^'"]+)['"]/): group 1 of the first match,
\* or <<>> when the pattern does not match
MatchProp(content, key) ==
  LET at == {i \in 1..Len(content) :
               content[i].t = "prop" /\ content[i].k = key /\ content[i].v # <<>>}
  IN IF at = {} THEN <<>>
     ELSE content[CHOOSE i \in at : \A j \in at : i <= j].v

\* ------------------------------------------------------------ file system

\* A directory entry as fs.readdir(dir, {withFileTypes: true}) gives it,
\* with what reading it gives: ok is FALSE for an entry that cannot be read
\* (fs.readdir or fs.readFileSync on it throws).
File(name, content) ==
  [name |-> name, isDir |-> FALSE, ok |-> TRUE, content |-> content, entries |-> <<>>]

Dir(name, entries) ==
  [name |-> name, isDir |-> TRUE, ok |-> TRUE, content |-> <<>>, entries |-> entries]

\* An entry that cannot be read: fs.readdir of the directory, or
\* fs.readFileSync and fs.readFile of the file, throws.
Unreadable(entry) == [entry EXCEPT !.ok = FALSE]

\* The extension tokens.
JsExt == <<".", "js">>
HtmlExt == <<".", "html">>
CssExt == <<".", "css">>
ScssExt == <<".", "scss">>
LessExt == <<".", "less">>
TsExt == <<".", "ts">>

\* src/unnamed/part_000:7
ANGULARJS_PROJECT_PATH == <<".", "/", "angularjs-project">>

\* src/unnamed/part_000:8
REACT_OUTPUT_PATH == <<".", "/", "react-app">>

\* The arguments of convertAngularToReact in the runs modelled.
AngularProjectPath == <<"/", "proj">>

OutputPath == <<"/", "out">>

\* ---------------------------------------------- the Angular scanner (index.js)

\* classifyFile's null
NullFile == [path |-> <<>>, type |-> "null"]

\* A classifyFile without the rule of the .service.ts suffix.
ClassifyFileWithoutServiceRule(filePath) ==
  LET ext == PathExtname(filePath)
      fileName == PathBasename(filePath)
  IN IF ext \notin {TsExt, HtmlExt, ScssExt, CssExt} THEN NullFile
     ELSE IF ext = TsExt
     THEN [path |-> filePath,
           type |->
             IF EndsWith(fileName, <<".", "component", ".", "ts">>) THEN "component"
             ELSE IF EndsWith(fileName, <<".", "pipe", ".", "ts">>) THEN "pipe"
             ELSE IF EndsWith(fileName, <<".", "module", ".", "ts">>) THEN "module"
             ELSE "other-ts"]
     ELSE IF ext = HtmlExt THEN [path |-> filePath, type |-> "template"]
     ELSE [path |-> filePath, type |-> "style"]


\* A classifier that would give a file of any other extension the type
\* unknown, where classifyFile returns null.
ClassifyFileKeepingUnknown(filePath) ==
  LET ext == PathExtname(filePath)
      fileName == PathBasename(filePath)
  IN IF ext \notin {TsExt, HtmlExt, ScssExt, CssExt}
     THEN [path |-> filePath, type |-> "unknown"]
     ELSE IF ext = TsExt
     THEN [path |-> filePath,
           type |->
             IF EndsWith(fileName, <<".", "component", ".", "ts">>) THEN "component"
             ELSE IF EndsWith(fileName, <<".", "service", ".", "ts">>) THEN "service"
             ELSE IF EndsWith(fileName, <<".", "pipe", ".", "ts">>) THEN "pipe"
             ELSE IF EndsWith(fileName, <<".", "module", ".", "ts">>) THEN "module"
             ELSE IF EndsWith(fileName, <<".", "directive", ".", "ts">>) THEN "directive"
             ELSE IF EndsWith(fileName, <<".", "guard", ".", "ts">>) THEN "guard"
             ELSE IF EndsWith(fileName, <<".", "interceptor", ".", "ts">>) THEN "interceptor"
             ELSE IF \/ Includes(fileName, <<"model">>)
                     \/ Includes(fileName, <<"interface">>)
                     \/ Includes(fileName, <<".", "type", ".">>) THEN "model"
             ELSE "other-ts"]
     ELSE IF ext = HtmlExt THEN [path |-> filePath, type |-> "template"]
     ELSE [path |-> filePath, type |-> "style"]


\* classifyFile
ClassifyFile(filePath) ==
  LET ext == PathExtname(filePath)
      fileName == PathBasename(filePath)
  IN IF ext \notin {TsExt, HtmlExt, ScssExt, CssExt} THEN NullFile
     ELSE IF ext = TsExt
     THEN [path |-> filePath,
           type |->
             IF EndsWith(fileName, <<".", "component", ".", "ts">>) THEN "component"
             ELSE IF EndsWith(fileName, <<".", "service", ".", "ts">>) THEN "service"
             ELSE IF EndsWith(fileName, <<".", "pipe", ".", "ts">>) THEN "pipe"
             ELSE IF EndsWith(fileName, <<".", "module", ".", "ts">>) THEN "module"
             ELSE IF EndsWith(fileName, <<".", "directive", ".", "ts">>) THEN "directive"
             ELSE IF EndsWith(fileName, <<".", "guard", ".", "ts">>) THEN "guard"
             ELSE IF EndsWith(fileName, <<".", "interceptor", ".", "ts">>) THEN "interceptor"
             ELSE IF \/ Includes(fileName, <<"model">>)
                     \/ Includes(fileName, <<"interface">>)
                     \/ Includes(fileName, <<".", "type", ".">>) THEN "model"
             ELSE "other-ts"]
     ELSE IF ext = HtmlExt THEN [path |-> filePath, type |-> "template"]
     ELSE [path |-> filePath, type |-> "style"]

\* What a scan gives: the files found so far, and whether it threw.
ScanOk(results) == [results |-> results, threw |-> FALSE]

ScanThrew(results) == [results |-> results, threw |-> TRUE]

\* A scanDirectory that would skip node_modules and dist in the project
\* directory only, and enter them deeper in the tree.
RECURSIVE ScanDirectoryExcludingAtRoot(_, _, _)
ScanDirectoryExcludingAtRoot(dir, entries, results) ==
  IF entries = <<>> THEN ScanOk(results)
  ELSE
    LET entry == Head(entries)
        fullPath == PathJoin(dir, entry.name)
        fileInfo == ClassifyFile(fullPath)
        here ==
          IF entry.isDir
          THEN IF \/ dir # AngularProjectPath
                  \/ entry.name # <<"node_modules">> /\ entry.name # <<"dist">>
               THEN IF entry.ok
                    THEN ScanDirectoryExcludingAtRoot(fullPath, entry.entries, results)
                    ELSE ScanThrew(results)
               ELSE ScanOk(results)
          ELSE IF fileInfo.type # "null"
               THEN ScanOk(Append(results, fileInfo))
               ELSE ScanOk(results)
    IN IF here.threw THEN here
       ELSE ScanDirectoryExcludingAtRoot(dir, Tail(entries), here.results)


\* scanDirectory of src/scanner.js: depth first, in readdir's order; a
\* directory named node_modules or dist is not entered; fs.readdir on an
\* unreadable directory throws and nothing catches it.
RECURSIVE ScanDirectory(_, _, _)
ScanDirectory(dir, entries, results) ==
  IF entries = <<>> THEN ScanOk(results)
  ELSE
    LET entry == Head(entries)
        fullPath == PathJoin(dir, entry.name)
        fileInfo == ClassifyFile(fullPath)
        here ==
          IF entry.isDir
          THEN IF entry.name # <<"node_modules">> /\ entry.name # <<"dist">>
               THEN IF entry.ok
                    THEN ScanDirectory(fullPath, entry.entries, results)
                    ELSE ScanThrew(results)
               ELSE ScanOk(results)
          ELSE IF fileInfo.type # "null"
               THEN ScanOk(Append(results, fileInfo))
               ELSE ScanOk(results)
    IN IF here.threw THEN here
       ELSE ScanDirectory(dir, Tail(entries), here.results)

\* -------------------------------------- the AngularJS scanner (part_000)

\* extractModuleName: the name in angular.module('name', or <<>>
ExtractModuleName(content, fileType) == MatchCall(content, "module")

\* A classifyAngularJSFile that would search the whole path, directories
\* included, where the code searches the file's base name.
ClassifyAngularJSFileByPath(filePath, content) ==
  LET fileName == ToLowerCase(filePath)
  IN IF EndsWith(filePath, HtmlExt) THEN "html"
     ELSE IF \/ EndsWith(filePath, CssExt)
             \/ EndsWith(filePath, ScssExt)
             \/ EndsWith(filePath, LessExt) THEN "css"
     ELSE IF EndsWith(filePath, JsExt)
     THEN IF \/ IncludesCall(content, "controller")
             \/ IncludesWord(content, "$controller")
             \/ Includes(fileName, <<"controller">>) THEN "controller"
          ELSE IF \/ IncludesCall(content, "directive")
                  \/ IncludesWord(content, "$compile")
                  \/ Includes(fileName, <<"directive">>) THEN "directive"
          ELSE IF \/ IncludesCall(content, "service")
                  \/ IncludesCall(content, "factory")
                  \/ IncludesCall(content, "provider")
                  \/ Includes(fileName, <<"service">>)
                  \/ Includes(fileName, <<"factory">>)
                  \/ Includes(fileName, <<"provider">>) THEN "service"
          ELSE IF \/ IncludesCall(content, "filter")
                  \/ Includes(fileName, <<"filter">>) THEN "filter"
          ELSE IF IncludesCall(content, "config") THEN "config"
          ELSE IF \/ IncludesWord(content, "$routeProvider")
                  \/ IncludesWord(content, "$stateProvider")
                  \/ Includes(fileName, <<"route">>)
                  \/ Includes(fileName, <<"routes">>) THEN "route"
          ELSE "js"
     ELSE "unknown"

\* A classifier that would look for a filter before it looks for a service.
ClassifyAngularJSFileFilterFirst(filePath, content) ==
  LET fileName == ToLowerCase(PathBasename(filePath))
  IN IF EndsWith(filePath, HtmlExt) THEN "html"
     ELSE IF \/ EndsWith(filePath, CssExt)
             \/ EndsWith(filePath, ScssExt)
             \/ EndsWith(filePath, LessExt) THEN "css"
     ELSE IF EndsWith(filePath, JsExt)
     THEN IF \/ IncludesCall(content, "controller")
             \/ IncludesWord(content, "$controller")
             \/ Includes(fileName, <<"controller">>) THEN "controller"
          ELSE IF \/ IncludesCall(content, "directive")
                  \/ IncludesWord(content, "$compile")
                  \/ Includes(fileName, <<"directive">>) THEN "directive"
          ELSE IF \/ IncludesCall(content, "filter")
                  \/ Includes(fileName, <<"filter">>) THEN "filter"
          ELSE IF \/ IncludesCall(content, "service")
                  \/ IncludesCall(content, "factory")
                  \/ IncludesCall(content, "provider")
                  \/ Includes(fileName, <<"service">>)
                  \/ Includes(fileName, <<"factory">>)
                  \/ Includes(fileName, <<"provider">>) THEN "service"
          ELSE IF IncludesCall(content, "config") THEN "config"
          ELSE IF \/ IncludesWord(content, "$routeProvider")
                  \/ IncludesWord(content, "$stateProvider")
                  \/ Includes(fileName, <<"route">>)
                  \/ Includes(fileName, <<"routes">>) THEN "route"
          ELSE "js"
     ELSE "unknown"


\* classifyAngularJSFile
ClassifyAngularJSFile(filePath, content) ==
  LET fileName == ToLowerCase(PathBasename(filePath))
  IN IF EndsWith(filePath, HtmlExt) THEN "html"
     ELSE IF \/ EndsWith(filePath, CssExt)
             \/ EndsWith(filePath, ScssExt)
             \/ EndsWith(filePath, LessExt) THEN "css"
     ELSE IF EndsWith(filePath, JsExt)
     THEN IF \/ IncludesCall(content, "controller")
             \/ IncludesWord(content, "$controller")
             \/ Includes(fileName, <<"controller">>) THEN "controller"
          ELSE IF \/ IncludesCall(content, "directive")
                  \/ IncludesWord(content, "$compile")
                  \/ Includes(fileName, <<"directive">>) THEN "directive"
          ELSE IF \/ IncludesCall(content, "service")
                  \/ IncludesCall(content, "factory")
                  \/ IncludesCall(content, "provider")
                  \/ Includes(fileName, <<"service">>)
                  \/ Includes(fileName, <<"factory">>)
                  \/ Includes(fileName, <<"provider">>) THEN "service"
          ELSE IF \/ IncludesCall(content, "filter")
                  \/ Includes(fileName, <<"filter">>) THEN "filter"
          ELSE IF IncludesCall(content, "config") THEN "config"
          ELSE IF \/ IncludesWord(content, "$routeProvider")
                  \/ IncludesWord(content, "$stateProvider")
                  \/ Includes(fileName, <<"route">>)
                  \/ Includes(fileName, <<"routes">>) THEN "route"
          ELSE "js"
     ELSE "unknown"

\* A scan that would put each file it finds in front of the list.
RECURSIVE ScanAngularJSDirectoryPrepending(_, _, _)
ScanAngularJSDirectoryPrepending(dirPath, entries, files) ==
  IF entries = <<>> THEN ScanOk(files)
  ELSE
    LET entry == Head(entries)
        fullPath == PathJoin(dirPath, entry.name)
        fileType == ClassifyAngularJSFile(fullPath, entry.content)
        here ==
          IF entry.isDir
          THEN IF /\ ~StartsWith(entry.name, <<"node_modules">>)
                  /\ ~StartsWith(entry.name, <<".">>)
               THEN IF entry.ok
                    THEN ScanAngularJSDirectoryPrepending(fullPath, entry.entries, files)
                    ELSE ScanThrew(files)
               ELSE ScanOk(files)
          ELSE IF PathExtname(entry.name) \in {JsExt, HtmlExt, CssExt, LessExt, ScssExt}
               THEN IF entry.ok
                    THEN ScanOk(<<[path |-> fullPath,
                                   type |-> fileType,
                                   content |-> entry.content,
                                   moduleName |-> ExtractModuleName(entry.content, fileType)]>>
                                \o files)
                    ELSE ScanThrew(files)
               ELSE ScanOk(files)
    IN IF here.threw THEN here
       ELSE ScanAngularJSDirectoryPrepending(dirPath, Tail(entries), here.results)


\* scanAngularJSProject's scanDirectory: depth first, in readdir's order; a
\* directory whose name starts with node_modules or with a dot is not
\* entered; only .js, .html, .css, .less and .scss files are read and kept;
\* fs.readdir and fs.readFileSync throw on what cannot be read.
RECURSIVE ScanAngularJSDirectory(_, _, _)
ScanAngularJSDirectory(dirPath, entries, files) ==
  IF entries = <<>> THEN ScanOk(files)
  ELSE
    LET entry == Head(entries)
        fullPath == PathJoin(dirPath, entry.name)
        fileType == ClassifyAngularJSFile(fullPath, entry.content)
        here ==
          IF entry.isDir
          THEN IF /\ ~StartsWith(entry.name, <<"node_modules">>)
                  /\ ~StartsWith(entry.name, <<".">>)
               THEN IF entry.ok
                    THEN ScanAngularJSDirectory(fullPath, entry.entries, files)
                    ELSE ScanThrew(files)
               ELSE ScanOk(files)
          ELSE IF \/ EndsWith(entry.name, JsExt)
                  \/ EndsWith(entry.name, HtmlExt)
                  \/ EndsWith(entry.name, CssExt)
                  \/ EndsWith(entry.name, LessExt)
                  \/ EndsWith(entry.name, ScssExt)
               THEN IF entry.ok
                    THEN ScanOk(Append(files,
                           [path |-> fullPath,
                            type |-> fileType,
                            content |-> entry.content,
                            moduleName |-> ExtractModuleName(entry.content, fileType)]))
                    ELSE ScanThrew(files)
               ELSE ScanOk(files)
    IN IF here.threw THEN here
       ELSE ScanAngularJSDirectory(dirPath, Tail(entries), here.results)

\* ------------------------------------------------------------------ arrays

\* A filter that would list the accepted elements last to first.
FilterReversing(seq, accepted) ==
  LET F[i \in 0..Len(seq)] ==
        IF i = 0 THEN <<>>
        ELSE IF i \in accepted THEN <<seq[i]>> \o F[i - 1] ELSE F[i - 1]
  IN F[Len(seq)]


\* Array.prototype.filter: the elements of seq at the positions the
\* callback accepts, in the order of seq
Filter(seq, accepted) ==
  LET F[i \in 0..Len(seq)] ==
        IF i = 0 THEN <<>>
        ELSE IF i \in accepted THEN Append(F[i - 1], seq[i]) ELSE F[i - 1]
  IN F[Len(seq)]

\* Array.prototype.find: the first element of seq at a position the callback
\* accepts, or none
Find(seq, accepted, none) ==
  IF accepted = {} THEN none
  ELSE seq[CHOOSE i \in accepted : \A j \in accepted : i <= j]

\* ------------------------------------- the AngularJS grouper (part_000)

\* undefined, where an AngularJSFile is expected
Undefined == [path |-> <<>>, type |-> "undefined", content |-> <<>>, moduleName |-> <<>>]

\* extractNameFromAngularJSFile: the declared name, or <<>> for undefined
ExtractNameFromAngularJSFile(file) ==
  IF file.type = "controller" THEN MatchCall(file.content, "controller")
  ELSE IF file.type = "directive" THEN MatchCall(file.content, "directive")
  ELSE IF file.type = "service"
  THEN IF MatchCall(file.content, "service") # <<>> THEN MatchCall(file.content, "service")
       ELSE IF MatchCall(file.content, "factory") # <<>> THEN MatchCall(file.content, "factory")
       ELSE MatchCall(file.content, "provider")
  ELSE IF file.type = "filter" THEN MatchCall(file.content, "filter")
  ELSE <<>>

\* html.path.replace(ANGULARJS_PROJECT_PATH, '').replace(/^\//, '')
HtmlBasePath(htmlPath) ==
  LET r == ReplaceFirst(htmlPath, ANGULARJS_PROJECT_PATH, <<>>)
  IN IF StartsWith(r, <<"/">>) THEN Tail(r) ELSE r

\* the test of htmlFiles.find for a templateUrl
TemplateUrlMatches(html, templatePath) ==
  \/ HtmlBasePath(html.path) = templatePath
  \/ EndsWith(html.path, templatePath)

\* the template a templateUrl in the primary file's content resolves to
TemplateByUrl(primary, htmlFiles) ==
  LET templatePath == MatchProp(primary.content, "templateUrl")
      Test(html) == TemplateUrlMatches(html, templatePath)
  IN IF templatePath # <<>> THEN Find(htmlFiles, {pos \in DOMAIN htmlFiles : Test(htmlFiles[pos])}, Undefined) ELSE Undefined

\* the naming-convention test of a controller's template
ControllerTemplateMatches(html, baseName) ==
  \/ PathBasenameExt(html.path, HtmlExt) = baseName
  \/ Includes(html.path, <<"/">> \o baseName \o HtmlExt)
  \/ Includes(html.path, <<"/", "views", "/">> \o baseName \o HtmlExt)
  \/ Includes(html.path, <<"/", "templates", "/">> \o baseName \o HtmlExt)
  \/ Includes(html.path, <<"/", "partials", "/">> \o baseName \o HtmlExt)

\* the naming-convention test of a directive's template
DirectiveTemplateMatches(html, baseName) ==
  \/ PathBasenameExt(html.path, HtmlExt) = baseName
  \/ Includes(html.path, <<"/">> \o baseName \o HtmlExt)
  \/ Includes(html.path, <<"/", "directives", "/">> \o baseName \o HtmlExt)
  \/ Includes(html.path, <<"/", "templates", "/">> \o baseName \o HtmlExt)

\* the naming-convention test of a style sheet
CssMatches(cssFile, baseName) ==
  \/ PathBasenameExt(cssFile.path, PathExtname(cssFile.path)) = baseName
  \/ Includes(cssFile.path, <<"/">> \o baseName \o CssExt)
  \/ Includes(cssFile.path, <<"/">> \o baseName \o ScssExt)
  \/ Includes(cssFile.path, <<"/">> \o baseName \o LessExt)

\* the template the naming convention gives a controller or a directive
TemplateByConvention(primary, htmlFiles) ==
  LET baseName == PathBasenameExt(primary.path, JsExt)
      TestC(html) == ControllerTemplateMatches(html, baseName)
      TestD(html) == DirectiveTemplateMatches(html, baseName)
  IN IF primary.type = "controller" THEN Find(htmlFiles, {pos \in DOMAIN htmlFiles : TestC(htmlFiles[pos])}, Undefined)
     ELSE Find(htmlFiles, {pos \in DOMAIN htmlFiles : TestD(htmlFiles[pos])}, Undefined)

\* A template resolution that would try the naming convention before the
\* templateUrl.
TemplateOfConventionFirst(primary, htmlFiles) ==
  IF TemplateByConvention(primary, htmlFiles) # Undefined
  THEN TemplateByConvention(primary, htmlFiles)
  ELSE TemplateByUrl(primary, htmlFiles)

\* A template resolution that would stop at the templateUrl, without the
\* naming convention.
TemplateOfUrlOnly(primary, htmlFiles) == TemplateByUrl(primary, htmlFiles)


\* the template of a unit: by templateUrl, and by naming convention when
\* that found none
TemplateOf(primary, htmlFiles) ==
  IF TemplateByUrl(primary, htmlFiles) # Undefined
  THEN TemplateByUrl(primary, htmlFiles)
  ELSE TemplateByConvention(primary, htmlFiles)

\* the style sheet of a unit: by naming convention only
CssOf(primary, cssFiles) ==
  LET baseName == PathBasenameExt(primary.path, JsExt)
      Test(cssFile) == CssMatches(cssFile, baseName)
  IN Find(cssFiles, {pos \in DOMAIN cssFiles : Test(cssFiles[pos])}, Undefined)

\* A name that would prefer the file's base name to the registered name.
NameOfBaseNameFirst(primary) ==
  IF PathBasenameExt(primary.path, JsExt) # <<>>
  THEN PathBasenameExt(primary.path, JsExt)
  ELSE ExtractNameFromAngularJSFile(primary)


\* name: controllerName || baseName
NameOf(primary) ==
  IF ExtractNameFromAngularJSFile(primary) # <<>>
  THEN ExtractNameFromAngularJSFile(primary)
  ELSE PathBasenameExt(primary.path, JsExt)

IsType(f, type) == f.type = type

\* one ControllerGroup
ControllerGroup(controller, htmlFiles, cssFiles) ==
  [controller |-> controller,
   template |-> TemplateOf(controller, htmlFiles),
   css |-> CssOf(controller, cssFiles),
   name |-> NameOf(controller)]

\* one DirectiveGroup
DirectiveGroup(directive, htmlFiles, cssFiles) ==
  [directive |-> directive,
   template |-> TemplateOf(directive, htmlFiles),
   css |-> CssOf(directive, cssFiles),
   name |-> NameOf(directive)]

\* the GroupedFiles of nothing
EmptyGroupedFiles ==
  [controllers |-> <<>>, directives |-> <<>>, services |-> <<>>, filters |-> <<>>,
   routeConfigs |-> <<>>, configs |-> <<>>, others |-> <<>>]

\* groupAngularJSFiles
GroupAngularJSFiles(fs) ==
  LET IsController(f) == IsType(f, "controller")
      IsDirective(f) == IsType(f, "directive")
      IsHtml(f) == IsType(f, "html")
      IsCss(f) == IsType(f, "css")
      IsService(f) == IsType(f, "service")
      IsFilter(f) == IsType(f, "filter")
      IsRoute(f) == IsType(f, "route")
      IsConfig(f) == IsType(f, "config")
      IsOther(f) ==
        f.type \notin {"controller", "directive", "service", "filter", "route",
                       "config", "html", "css"}
      controllers == Filter(fs, {pos \in DOMAIN fs : IsController(fs[pos])})
      directives == Filter(fs, {pos \in DOMAIN fs : IsDirective(fs[pos])})
      htmlFiles == Filter(fs, {pos \in DOMAIN fs : IsHtml(fs[pos])})
      cssFiles == Filter(fs, {pos \in DOMAIN fs : IsCss(fs[pos])})
  IN [controllers |->
        [i \in 1..Len(controllers) |-> ControllerGroup(controllers[i], htmlFiles, cssFiles)],
      directives |->
        [i \in 1..Len(directives) |-> DirectiveGroup(directives[i], htmlFiles, cssFiles)],
      services |-> Filter(fs, {pos \in DOMAIN fs : IsService(fs[pos])}),
      filters |-> Filter(fs, {pos \in DOMAIN fs : IsFilter(fs[pos])}),
      routeConfigs |-> Filter(fs, {pos \in DOMAIN fs : IsRoute(fs[pos])}),
      configs |-> Filter(fs, {pos \in DOMAIN fs : IsConfig(fs[pos])}),
      others |-> Filter(fs, {pos \in DOMAIN fs : IsOther(fs[pos])})]

\* ------------------------------------------------------------------- disk

\* Every file of a tree with its path, whether it can be read, and its
\* content: what fs.readFile(path, 'utf-8') works on.
RECURSIVE DiskFiles(_, _)
DiskFiles(dir, entries) ==
  IF entries = <<>> THEN {}
  ELSE LET entry == Head(entries)
           fullPath == PathJoin(dir, entry.name)
       IN (IF entry.isDir
           THEN DiskFiles(fullPath, entry.entries)
           ELSE {[path |-> fullPath, ok |-> entry.ok, content |-> entry.content]})
          \cup DiskFiles(dir, Tail(entries))

\* fs.readFile(filePath, 'utf-8'): the content, or a throw
ReadFile(disk, filePath) ==
  IF \E f \in disk : f.path = filePath /\ f.ok
  THEN [threw |-> FALSE, content |-> (CHOOSE f \in disk : f.path = filePath /\ f.ok).content]
  ELSE [threw |-> TRUE, content |-> <<>>]

\* ------------------------------------------ the Angular grouper (index.js)

\* readFileContent: the content, or '' when reading throws
ReadFileContent(disk, filePath) == ReadFile(disk, filePath).content

\* null, where groupComponentFiles puts a template or a style
NullPart == [path |-> <<>>, content |-> <<>>]

ComponentSuffix == <<".", "component", ".", "ts">>

\* componentPath.replace('.component.ts', '')
BasePathOf(componentPath) == ReplaceFirst(componentPath, ComponentSuffix, <<>>)

\* the test of templates.find
ComponentTemplateMatches(t, basePath) ==
  /\ StartsWith(t.path, basePath)
  /\ \/ EndsWith(t.path, <<".", "component", ".", "html">>)
     \/ t.path = basePath \o HtmlExt

\* the test of styles.find
ComponentStyleMatches(s, basePath) ==
  /\ StartsWith(s.path, basePath)
  /\ \/ EndsWith(s.path, <<".", "component", ".", "scss">>)
     \/ EndsWith(s.path, <<".", "component", ".", "css">>)
     \/ s.path = basePath \o ScssExt
     \/ s.path = basePath \o CssExt

\* The grouped component of one component file, up to its name: the body of
\* groupComponentFiles' loop before path.basename is called.
ComponentGroup(component, templates, styles, disk, componentName) ==
  LET basePath == BasePathOf(component.path)
      TestT(t) == ComponentTemplateMatches(t, basePath)
      TestS(st) == ComponentStyleMatches(st, basePath)
      template == Find(templates, {pos \in DOMAIN templates : TestT(templates[pos])}, NullFile)
      style == Find(styles, {pos \in DOMAIN styles : TestS(styles[pos])}, NullFile)
  IN [name |-> componentName,
      basePath |-> basePath,
      component |-> [path |-> component.path,
                     content |-> ReadFileContent(disk, component.path)],
      template |-> IF template # NullFile
                   THEN [path |-> template.path,
                         content |-> ReadFileContent(disk, template.path)]
                   ELSE NullPart,
      style |-> IF style # NullFile
                THEN [path |-> style.path,
                      content |-> ReadFileContent(disk, style.path)]
                ELSE NullPart]

\* What `path` is bound to in src/grouper.js: require('fs').promises, which
\* has readFile and no basename.
GrouperPath == "fs.promises"

\* path.basename(basePath) in src/grouper.js: calling a member that does
\* not exist throws a TypeError
GrouperPathBasename(basePath) ==
  IF GrouperPath = "path"
  THEN [threw |-> FALSE, value |-> PathBasename(basePath)]
  ELSE [threw |-> TRUE, value |-> <<>>]

\* groupComponentFiles: the grouped components, or a throw
GroupComponentFiles(cfs, disk) ==
  LET IsComponent(f) == IsType(f, "component")
      IsTemplate(f) == IsType(f, "template")
      IsStyle(f) == IsType(f, "style")
      components == Filter(cfs, {pos \in DOMAIN cfs : IsComponent(cfs[pos])})
      templates == Filter(cfs, {pos \in DOMAIN cfs : IsTemplate(cfs[pos])})
      styles == Filter(cfs, {pos \in DOMAIN cfs : IsStyle(cfs[pos])})
      Name(c) == GrouperPathBasename(BasePathOf(c.path))
  IN IF \E i \in 1..Len(components) : Name(components[i]).threw
     THEN [threw |-> TRUE, groupedComponents |-> <<>>]
     ELSE [threw |-> FALSE,
           groupedComponents |->
             [i \in 1..Len(components) |->
                ComponentGroup(components[i], templates, styles, disk,
                               Name(components[i]).value)]]

\* ---------------------------------------------- output paths (index.js)

\* undefined, where a path string is expected
UndefinedPath == <<>>

\* path.join(a, b, c) of strings; a "." segment is dropped by normalisation
PathJoin3(a, b, c) == IF b = <<".">> THEN PathJoin(a, c) ELSE PathJoin(PathJoin(a, b), c)

\* the part of p after its first '/src/', or <<>> when it has none
AfterSrc(p) ==
  LET srcIndex == IndexOf(p, <<"/", "src", "/">>)
  IN IF srcIndex = 0 THEN <<>> ELSE SubSeq(p, srcIndex + 3, Len(p))

HasSrc(p) == IndexOf(p, <<"/", "src", "/">>) # 0

\* generateOutputPath: path.join throws on an undefined outputBasePath
GenerateOutputPath(basePath, outputBasePath) ==
  IF outputBasePath = UndefinedPath THEN [threw |-> TRUE, path |-> <<>>]
  ELSE IF ~HasSrc(basePath)
  THEN [threw |-> FALSE,
        path |-> PathJoin(outputBasePath, PathBasename(basePath) \o <<".", "jsx">>)]
  ELSE [threw |-> FALSE,
        path |-> PathJoin(outputBasePath, AfterSrc(basePath) \o <<".", "jsx">>)]

\* the state tokens of shouldBeContextProvider
StateIndicators ==
  {"BehaviorSubject", "Subject", "ReplaySubject", "Observable", "subscribe",
   "private _", "state", "store", "private data"}

\* shouldBeContextProvider
ShouldBeContextProvider(serviceContent) ==
  \E w \in StateIndicators : IncludesWord(serviceContent, w)

\* generateServiceOutputPath
GenerateServiceOutputPath(servicePath, outputBasePath, isContextProvider) ==
  LET suffix == IF isContextProvider THEN <<".", "context", ".", "js">>
                ELSE <<".", "hooks", ".", "js">>
      ext == <<".", "service", ".", "ts">>
      relativePath == AfterSrc(servicePath)
  IN IF outputBasePath = UndefinedPath THEN [threw |-> TRUE, path |-> <<>>]
     ELSE IF ~HasSrc(servicePath)
     THEN [threw |-> FALSE,
           path |-> PathJoin3(outputBasePath, <<"services">>,
                              PathBasenameExt(servicePath, ext) \o suffix)]
     ELSE [threw |-> FALSE,
           path |-> PathJoin3(outputBasePath, PathDirname(relativePath),
                              PathBasenameExt(relativePath, ext) \o suffix)]

\* generatePipeOutputPath
GeneratePipeOutputPath(pipePath, outputBasePath) ==
  LET ext == <<".", "pipe", ".", "ts">>
      relativePath == AfterSrc(pipePath)
  IN IF outputBasePath = UndefinedPath THEN [threw |-> TRUE, path |-> <<>>]
     ELSE IF ~HasSrc(pipePath)
     THEN [threw |-> FALSE,
           path |-> PathJoin3(outputBasePath, <<"utils">>,
                              PathBasenameExt(pipePath, ext) \o JsExt)]
     ELSE [threw |-> FALSE,
           path |-> PathJoin3(outputBasePath, PathDirname(relativePath),
                              PathBasenameExt(relativePath, ext) \o JsExt)]

\* -------------------------------------------------------- the trees scanned

\* The entries an AngularJS project directory is drawn from.
JsCatalogue ==
  << File(<<"foo", ".", "js">>,
          <<Call("controller", "fooCtrl"),
            Prop("templateUrl", <<"bar", ".", "html">>),
            Prop("styleUrl", <<"bar", ".", "css">>)>>),
     File(<<"bar", ".", "js">>, <<Call("controller", "barCtrl")>>),
     File(<<"tabs", ".", "js">>,
          <<Call("directive", "tabs"),
            Prop("templateUrl", <<"views", "/", "nav", ".", "html">>)>>),
     File(<<"foo", ".", "html">>, <<Word("markup")>>),
     File(<<"bar", ".", "html">>, <<Word("markup")>>),
     File(<<"foo", ".", "css">>, <<Word("rules")>>),
     File(<<"bar", ".", "css">>, <<Word("rules")>>),
     File(<<"api", ".", "js">>,
          <<Call("module", "app"), Call("filter", "apiDate"), Call("factory", "api")>>),
     File(<<"user", ".", "service", ".", "js">>,
          <<Call("service", "user"), Call("directive", "userCard")>>),
     File(<<"cap", ".", "js">>, <<Call("filter", "cap")>>),
     File(<<"util", ".", "js">>, <<Word("helpers")>>),
     Dir(<<"controller">>,
         <<File(<<"util", ".", "js">>, <<Word("helpers")>>),
           Dir(<<"node_modules">>, <<File(<<"dep", ".", "js">>, <<Call("service", "dep")>>)>>),
           File(<<"foo", ".", "js">>, <<CallNoName("controller")>>),
           File(<<"todo", ".", "md">>, <<Word("notes")>>)>>),
     Dir(<<"node_modules">>, <<File(<<"lib", ".", "js">>, <<Call("service", "lib")>>)>>),
     Dir(<<".", "git">>, <<File(<<"hook", ".", "js">>, <<Word("helpers")>>)>>),
     File(<<"readme", ".", "txt">>, <<Word("notes")>>),
     Unreadable(File(<<"lock", ".", "js">>, <<Word("helpers")>>)),
     Unreadable(Dir(<<"private">>, <<File(<<"key", ".", "js">>, <<Word("helpers")>>)>>)) >>

\* The entries an Angular project directory is drawn from.
NgCatalogue ==
  << File(<<"foo", ".", "component", ".", "ts">>, <<Word("Component")>>),
     File(<<"foo", "-", "list", ".", "component", ".", "html">>, <<Word("markup")>>),
     File(<<"foo", ".", "component", ".", "html">>, <<Word("markup")>>),
     File(<<"foo", ".", "component", ".", "scss">>, <<Word("rules")>>),
     File(<<"baz", ".", "service", ".", "ts">>, <<Word("BehaviorSubject")>>),
     File(<<"log", ".", "service", ".", "ts">>, <<Word("helpers")>>),
     File(<<"cap", ".", "pipe", ".", "ts">>, <<Word("transform")>>),
     File(<<"app-routing", ".", "module", ".", "ts">>, <<Word("Routes")>>),
     File(<<"auth", ".", "guard", ".", "ts">>, <<Word("canActivate")>>),
     File(<<"tip", ".", "directive", ".", "ts">>, <<Word("Directive")>>),
     File(<<"user", ".", "ts">>, <<Word("fields")>>),
     Dir(<<"model">>,
         <<File(<<"user", ".", "ts">>, <<Word("fields")>>),
           File(<<"baz", ".", "service", ".", "ts">>, <<Word("BehaviorSubject")>>),
           Dir(<<"node_modules">>,
               <<File(<<"dep", ".", "service", ".", "ts">>, <<Word("helpers")>>)>>),
           File(<<"user", ".", "css">>, <<Word("rules")>>),
           File(<<"todo", ".", "md">>, <<Word("notes")>>)>>),
     Dir(<<"dist">>, <<File(<<"old", ".", "service", ".", "ts">>, <<Word("helpers")>>)>>),
     File(<<"notes", ".", "txt">>, <<Word("notes")>>),
     Unreadable(File(<<"cfg", ".", "service", ".", "ts">>, <<Word("helpers")>>)),
     Unreadable(Dir(<<"private">>,
                    <<File(<<"key", ".", "service", ".", "ts">>, <<Word("helpers")>>)>>)) >>

\* The elements of cat at the positions S, in the order of cat or in the
\* reverse order: fs.readdir promises no order.
Pick(cat, S, ascending) ==
  LET n == Cardinality(S)
      up == CHOOSE f \in [1..n -> S] : \A i, j \in 1..n : i < j => f[i] < f[j]
  IN [i \in 1..n |-> IF ascending THEN cat[up[i]] ELSE cat[up[n + 1 - i]]]

\* The directories of at most MaxEntries entries of a catalogue.
Trees(cat) ==
  {Pick(cat, S, asc) : S \in {T \in SUBSET (1..Len(cat)) : Cardinality(T) <= MaxEntries},
                       asc \in BOOLEAN}

\* The grouped components convertComponents is called with directly.
UnitPool ==
  LET cfs == ScanDirectory(AngularProjectPath,
                           << File(<<"foo", ".", "component", ".", "ts">>, <<Word("Component")>>),
                              File(<<"foo", ".", "component", ".", "html">>, <<Word("markup")>>),
                              File(<<"nav", ".", "component", ".", "ts">>, <<Word("Component")>>) >>,
                           <<>>).results
      IsComponent(f) == IsType(f, "component")
      IsTemplate(f) == IsType(f, "template")
      components == Filter(cfs, {pos \in DOMAIN cfs : IsComponent(cfs[pos])})
  IN {ComponentGroup(components[i], Filter(cfs, {pos \in DOMAIN cfs : IsTemplate(cfs[pos])}), <<>>, {},
                     PathBasename(BasePathOf(components[i].path))) : i \in 1..Len(components)}

UnitLists == UNION {[1..n -> UnitPool] : n \in 0..MaxUnits}

\* ------------------------------------------------------------------ state

VARIABLES
  entry,              \* the function called: main, convertAngularToReact, convertComponents
  rootExists,         \* whether the project path exists
  tree,               \* the entries of the project directory
  options,            \* the options argument: openAiApiKey (or the environment's), outputPath
  pc,                 \* the call the run is at
  failure,            \* where the run was aborted and by what
  files,              \* main's files
  classifiedFiles,    \* convertAngularToReact's classifiedFiles
  groupedFiles,       \* main's groupedFiles
  groupedComponents,  \* convertAngularToReact's groupedComponents
  idx,                \* the items the loop of the current call has finished
  converted,          \* the converters' returned arrays
  router,             \* routerStructure, routerConfig
  handed,             \* the collaborator's calls, in order
  written             \* the files written, in order

vars == <<entry, rootExists, tree, options, pc, failure, files, classifiedFiles,
          groupedFiles, groupedComponents, idx, converted, router, handed, written>>

NoFailure == [at |-> "", error |-> ""]

NoConverted ==
  [components |-> <<>>, services |-> <<>>, pipes |-> <<>>,
   controllers |-> <<>>, directives |-> <<>>, filters |-> <<>>]

NoRouter == [kind |-> "none", files |-> <<>>]

Init ==
  /\ entry \in {"main", "convertAngularToReact", "convertComponents"}
  /\ rootExists \in BOOLEAN
  /\ tree \in (IF ~rootExists \/ entry = "convertComponents" THEN {<<>>}
               ELSE IF entry = "main" THEN Trees(JsCatalogue)
               ELSE Trees(NgCatalogue))
  /\ options \in (IF entry = "main"
                  THEN {[openAiApiKey |-> TRUE, outputPath |-> REACT_OUTPUT_PATH]}
                  ELSE [openAiApiKey : BOOLEAN, outputPath : {UndefinedPath, OutputPath}])
  /\ entry = "convertComponents" => rootExists
  /\ pc = "idle"
  /\ failure = NoFailure
  /\ files = <<>>
  /\ classifiedFiles = <<>>
  /\ groupedFiles = EmptyGroupedFiles
  /\ groupedComponents \in (IF entry = "convertComponents" THEN UnitLists ELSE {<<>>})
  /\ idx = 0
  /\ converted = NoConverted
  /\ router = NoRouter
  /\ handed = <<>>
  /\ written = <<>>

\* One call of the collaborator: the converter calling, the item handed to
\* it, and how the call ends.
Handed(converter, item, outcome) ==
  [converter |-> converter, item |-> item, outcome |-> outcome]

\* The run is aborted: the error leaves the function called.
Throw(at, error) ==
  /\ pc' = "failed"
  /\ failure' = [at |-> at, error |-> error]

\* The call of the exported function.
Start ==
  /\ pc = "idle"
  /\ pc' = CASE entry = "main" -> "scanAngularJSProject"
             [] entry = "convertAngularToReact" -> "scanProject"
             [] OTHER -> "convertComponents"
  /\ UNCHANGED <<entry, rootExists, tree, options, failure, files, classifiedFiles,
                 groupedFiles, groupedComponents, idx, converted, router, handed, written>>

\* A scanProject whose catch would return what it has instead of throwing
\* the error again.
ScanProjectSwallowing ==
  /\ pc = "scanProject"
  /\ LET scan == ScanDirectory(AngularProjectPath, tree, <<>>)
     IN /\ classifiedFiles' = IF ~rootExists \/ scan.threw THEN <<>> ELSE scan.results
        /\ pc' = "groupComponentFiles"
        /\ UNCHANGED failure
  /\ UNCHANGED <<entry, rootExists, tree, options, files, groupedFiles,
                 groupedComponents, idx, converted, router, handed, written>>

\* scanProject: fs.access throws when the project path does not exist, and
\* the error is logged and thrown again; so is one scanDirectory throws.
ScanProject ==
  /\ pc = "scanProject"
  /\ LET scan == ScanDirectory(AngularProjectPath, tree, <<>>)
     IN IF ~rootExists
        THEN Throw("scanProject", "ENOENT") /\ UNCHANGED classifiedFiles
        ELSE IF scan.threw
        THEN Throw("scanProject", "EACCES") /\ UNCHANGED classifiedFiles
        ELSE /\ classifiedFiles' = scan.results
             /\ pc' = "groupComponentFiles"
             /\ UNCHANGED failure
  /\ UNCHANGED <<entry, rootExists, tree, options, files, groupedFiles,
                 groupedComponents, idx, converted, router, handed, written>>

\* scanAngularJSProject: fs.readdir throws when the project path does not
\* exist; main's catch logs the error and exits.
ScanAngularJSProject ==
  /\ pc = "scanAngularJSProject"
  /\ LET scan == ScanAngularJSDirectory(ANGULARJS_PROJECT_PATH, tree, <<>>)
     IN IF ~rootExists
        THEN Throw("scanAngularJSProject", "ENOENT") /\ UNCHANGED files
        ELSE IF scan.threw
        THEN Throw("scanAngularJSProject", "EACCES") /\ UNCHANGED files
        ELSE /\ files' = scan.results
             /\ pc' = "groupAngularJSFiles"
             /\ UNCHANGED failure
  /\ UNCHANGED <<entry, rootExists, tree, options, classifiedFiles, groupedFiles,
                 groupedComponents, idx, converted, router, handed, written>>

\* groupComponentFiles, called by convertAngularToReact: a throw leaves
\* convertAngularToReact through its catch, which throws it again.
GroupComponentFilesCall ==
  /\ pc = "groupComponentFiles"
  /\ LET g == GroupComponentFiles(classifiedFiles, DiskFiles(AngularProjectPath, tree))
     IN IF g.threw
        THEN Throw("groupComponentFiles", "TypeError") /\ UNCHANGED groupedComponents
        ELSE /\ groupedComponents' = g.groupedComponents
             /\ pc' = "convertComponents"
             /\ UNCHANGED failure
  /\ UNCHANGED <<entry, rootExists, tree, options, files, classifiedFiles, groupedFiles,
                 idx, converted, router, handed, written>>

\* groupAngularJSFiles, called by main
GroupAngularJSFilesCall ==
  /\ pc = "groupAngularJSFiles"
  /\ groupedFiles' = GroupAngularJSFiles(files)
  /\ pc' = "mkdirSync"
  /\ UNCHANGED <<entry, rootExists, tree, options, failure, files, classifiedFiles,
                 groupedComponents, idx, converted, router, handed, written>>

\* main's fs.mkdirSync(REACT_OUTPUT_PATH, {recursive: true}): it may throw
EnsureOutputDirectory ==
  /\ pc = "mkdirSync"
  /\ \E outcome \in {"ok", "fail"} :
       IF outcome = "ok"
       THEN pc' = "convertControllers" /\ UNCHANGED failure
       ELSE Throw("mkdirSync", "EACCES")
  /\ UNCHANGED <<entry, rootExists, tree, options, files, classifiedFiles, groupedFiles,
                 groupedComponents, idx, converted, router, handed, written>>

\* ------------------------------------- the AngularJS converters (part_000)

\* directiveName.replace(/-([a-z])/g, ...) and the first letter in upper case
PascalTok(t) ==
  CASE t = "tabs" -> "Tabs"
    [] t = "foo" -> "Foo"
    [] t = "bar" -> "Bar"
    [] t = "nav" -> "Nav"
    [] t = "-tabs" -> "Tabs"
    [] OTHER -> t

PascalCase(name) == [i \in 1..Len(name) |-> PascalTok(name[i])]

\* content.match(/\.(service|factory|provider)\(['"]([^'"]+)['"]/): group 2
\* of the first match, or <<>>
MatchServiceCall(content) ==
  LET at == {i \in 1..Len(content) :
               /\ content[i].t = "call"
               /\ content[i].k \in {"service", "factory", "provider"}
               /\ content[i].v # <<>>}
  IN IF at = {} THEN <<>>
     ELSE content[CHOOSE i \in at : \A j \in at : i <= j].v

\* what convertControllers pushes for a converted group
ControllerResult(group, outcome) ==
  [name |-> group.name, code |-> "code", originalPath |-> group.controller.path,
   outputPath |-> <<"components", "/">> \o group.name \o <<".", "jsx">>]

\* what convertDirectives pushes for a converted group
DirectiveResult(group, outcome) ==
  [name |-> PascalCase(group.name), code |-> "code",
   originalPath |-> group.directive.path,
   outputPath |-> <<"components", "/">> \o PascalCase(group.name) \o <<".", "jsx">>]

\* what the AngularJS convertServices pushes for a converted service: the
\* directory depends on the collaborator's answer (a hook or context, or not)
ServiceResult(service, outcome) ==
  LET serviceName == IF MatchServiceCall(service.content) # <<>>
                     THEN MatchServiceCall(service.content)
                     ELSE PathBasenameExt(service.path, JsExt)
  IN [name |-> serviceName, code |-> "code", originalPath |-> service.path,
      outputPath |-> (IF outcome = "hook" THEN <<"hooks", "/">> ELSE <<"services", "/">>)
                     \o serviceName \o JsExt]

\* what convertFilters pushes for a converted filter
FilterResult(filter, outcome) ==
  LET filterName == IF MatchCall(filter.content, "filter") # <<>>
                    THEN MatchCall(filter.content, "filter")
                    ELSE PathBasenameExt(filter.path, JsExt)
  IN [name |-> filterName, code |-> "code", originalPath |-> filter.path,
      outputPath |-> <<"utils", "/", "filters", "/">> \o filterName \o JsExt]

ControllerPath(group) == group.controller.path

DirectivePath(group) == group.directive.path

FilePath(file) == file.path

\* A loop that would put each result in front of the list, as if the last
\* call to complete came first.
AngularJSLoopPrepending(c, field, paths, pushed, next) ==
  /\ pc = c
  /\ \/ /\ idx < Len(paths)
        /\ \E outcome \in DOMAIN pushed \cup {"fail"} :
             /\ converted' = IF outcome = "fail" THEN converted
                             ELSE [converted EXCEPT
                                     ![field] = <<pushed[outcome][idx + 1]>> \o @]
             /\ handed' = Append(handed, Handed(c, paths[idx + 1], outcome))
        /\ idx' = idx + 1
        /\ UNCHANGED pc
     \/ /\ idx = Len(paths)
        /\ pc' = next
        /\ idx' = 0
        /\ UNCHANGED <<converted, handed>>
  /\ UNCHANGED <<entry, rootExists, tree, options, failure, files, classifiedFiles,
                 groupedFiles, groupedComponents, router, written>>


\* A loop that would write the output file of each item as soon as the item
\* is converted.
AngularJSLoopWritingEachResult(c, field, paths, pushed, next) ==
  /\ pc = c
  /\ \/ /\ idx < Len(paths)
        /\ \E outcome \in DOMAIN pushed \cup {"fail"} :
             /\ converted' = IF outcome = "fail" THEN converted
                             ELSE [converted EXCEPT
                                     ![field] = Append(@, pushed[outcome][idx + 1])]
             /\ written' = IF outcome = "fail" THEN written
                           ELSE Append(written,
                                       [kind |-> "component",
                                        path |-> pushed[outcome][idx + 1].outputPath,
                                        ok |-> TRUE])
             /\ handed' = Append(handed, Handed(c, paths[idx + 1], outcome))
        /\ idx' = idx + 1
        /\ UNCHANGED pc
     \/ /\ idx = Len(paths)
        /\ pc' = next
        /\ idx' = 0
        /\ UNCHANGED <<converted, handed, written>>
  /\ UNCHANGED <<entry, rootExists, tree, options, failure, files, classifiedFiles,
                 groupedFiles, groupedComponents, router>>


\* The loop of an AngularJS converter over its items, paths being their
\* paths and pushed[outcome][i] what is pushed for item i when the
\* collaborator's call ends in outcome: each item is handed to the
\* collaborator inside a try; a result is pushed when the call succeeds, and
\* the catch only logs.  Then the converter returns.
AngularJSLoop(c, field, paths, pushed, next) ==
  /\ pc = c
  /\ \/ /\ idx < Len(paths)
        /\ \E outcome \in DOMAIN pushed \cup {"fail"} :
             /\ converted' = IF outcome = "fail" THEN converted
                             ELSE [converted EXCEPT
                                     ![field] = Append(@, pushed[outcome][idx + 1])]
             /\ handed' = Append(handed, Handed(c, paths[idx + 1], outcome))
        /\ idx' = idx + 1
        /\ UNCHANGED pc
     \/ /\ idx = Len(paths)
        /\ pc' = next
        /\ idx' = 0
        /\ UNCHANGED <<converted, handed>>
  /\ UNCHANGED <<entry, rootExists, tree, options, failure, files, classifiedFiles,
                 groupedFiles, groupedComponents, router, written>>

\* convertControllers
ConvertControllers ==
  LET groups == groupedFiles.controllers
  IN AngularJSLoop("convertControllers", "controllers",
                   [i \in DOMAIN groups |-> ControllerPath(groups[i])],
                   [o \in {"ok"} |-> [i \in DOMAIN groups |-> ControllerResult(groups[i], o)]],
                   "convertDirectives")

\* convertDirectives
ConvertDirectives ==
  LET groups == groupedFiles.directives
  IN AngularJSLoop("convertDirectives", "directives",
                   [i \in DOMAIN groups |-> DirectivePath(groups[i])],
                   [o \in {"ok"} |-> [i \in DOMAIN groups |-> DirectiveResult(groups[i], o)]],
                   "convertServicesJS")

\* convertServices of the AngularJS converter
ConvertServicesJS ==
  LET services == groupedFiles.services
  IN AngularJSLoop("convertServicesJS", "services",
                   [i \in DOMAIN services |-> FilePath(services[i])],
                   [o \in {"ok", "hook"} |->
                      [i \in DOMAIN services |-> ServiceResult(services[i], o)]],
                   "convertFilters")

\* convertFilters
ConvertFilters ==
  LET filters == groupedFiles.filters
  IN AngularJSLoop("convertFilters", "filters",
                   [i \in DOMAIN filters |-> FilePath(filters[i])],
                   [o \in {"ok"} |-> [i \in DOMAIN filters |-> FilterResult(filters[i], o)]],
                   "generateReactRouter")

\* --------------------------------------- the Angular converters (index.js)

\* where a converter of convertAngularToReact returns to
AfterConvertComponents ==
  IF entry = "convertComponents" THEN "returned" ELSE "convertServices"

\* the result convertComponents pushes: the converted code, or the
\* placeholder of its catch
ComponentResult(component, outputPath, failed) ==
  [originalComponent |-> component,
   reactComponent |-> IF failed THEN "placeholder" ELSE "code",
   outputPath |-> outputPath,
   error |-> IF failed THEN "message" ELSE ""]

\* the result convertServices pushes
ServiceResultNg(service, outputPath, isContextProvider, failed) ==
  [originalPath |-> service.path,
   reactCode |-> IF failed THEN "placeholder" ELSE "code",
   outputPath |-> outputPath,
   isContextProvider |-> IF failed THEN "undefined"
                         ELSE IF isContextProvider THEN "true" ELSE "false",
   error |-> IF failed THEN "message" ELSE ""]

\* the result convertPipes pushes
PipeResult(pipe, outputPath, failed) ==
  [originalPath |-> pipe.path,
   jsFunction |-> IF failed THEN "placeholder" ELSE "code",
   outputPath |-> outputPath,
   error |-> IF failed THEN "message" ELSE ""]

\* convertComponents: without an API key it throws before its loop.  In the
\* loop the collaborator is called inside a try and the catch pushes a
\* placeholder; generateOutputPath is called on both paths, and where it
\* throws in the catch the error leaves convertComponents.
ConvertComponents ==
  /\ pc = "convertComponents"
  /\ \/ /\ ~options.openAiApiKey
        /\ Throw("convertComponents", "NoApiKey")
        /\ UNCHANGED <<idx, converted, handed>>
     \/ /\ options.openAiApiKey
        /\ idx < Len(groupedComponents)
        /\ \E outcome \in {"ok", "fail"} :
             LET component == groupedComponents[idx + 1]
                 out == GenerateOutputPath(component.basePath, options.outputPath)
             IN /\ IF out.threw
                   THEN Throw("convertComponents", "TypeError") /\ UNCHANGED <<idx, converted>>
                   ELSE
                     /\ converted' =
                          [converted EXCEPT
                             !.components =
                               Append(@, ComponentResult(component, out.path, outcome = "fail"))]
                     /\ idx' = idx + 1
                     /\ UNCHANGED <<pc, failure>>
                /\ handed' = Append(handed, Handed("convertComponents",
                                                   component.component.path, outcome))
     \/ /\ options.openAiApiKey
        /\ idx = Len(groupedComponents)
        /\ pc' = AfterConvertComponents
        /\ idx' = 0
        /\ UNCHANGED <<failure, converted, handed>>
  /\ UNCHANGED <<entry, rootExists, tree, options, files, classifiedFiles, groupedFiles,
                 groupedComponents, router, written>>

\* file.path.includes('routing'): 'routing' holds no separator, so it lies
\* within one name piece; these are the pieces of the alphabet that hold it
IncludesRouting(filePath) ==
  \E i \in 1..Len(filePath) : filePath[i] \in {"routing", "app-routing"}

\* classifiedFiles.filter(file => file.type === 'service')
Services == LET Test(f) == IsType(f, "service") IN Filter(classifiedFiles, {pos \in DOMAIN classifiedFiles : Test(classifiedFiles[pos])})

\* classifiedFiles.filter(file => file.type === 'pipe')
Pipes == LET Test(f) == IsType(f, "pipe") IN Filter(classifiedFiles, {pos \in DOMAIN classifiedFiles : Test(classifiedFiles[pos])})

\* classifiedFiles.filter(file => file.type === 'module' && file.path.includes('routing'))
RoutingModules ==
  LET Test(f) == IsType(f, "module") /\ IncludesRouting(f.path)
  IN Filter(classifiedFiles, {pos \in DOMAIN classifiedFiles : Test(classifiedFiles[pos])})

\* convertServices of the Angular converter: as convertComponents, with the
\* service file read inside the try before the collaborator is called.
ConvertServices ==
  /\ pc = "convertServices"
  /\ \/ /\ ~options.openAiApiKey
        /\ Throw("convertServices", "NoApiKey")
        /\ UNCHANGED <<idx, converted, handed>>
     \/ /\ options.openAiApiKey
        /\ idx < Len(Services)
        /\ \E outcome \in {"ok", "fail"} :
             LET service == Services[idx + 1]
                 read == ReadFile(DiskFiles(AngularProjectPath, tree), service.path)
                 failed == read.threw \/ outcome = "fail"
                 isContextProvider == ShouldBeContextProvider(read.content)
                 out == IF failed
                        THEN GenerateServiceOutputPath(service.path, options.outputPath, FALSE)
                        ELSE GenerateServiceOutputPath(service.path, options.outputPath,
                                                       isContextProvider)
             IN /\ handed' = IF read.threw THEN handed
                             ELSE Append(handed, Handed("convertServices", service.path,
                                                        outcome))
                /\ IF out.threw
                   THEN Throw("convertServices", "TypeError") /\ UNCHANGED <<idx, converted>>
                   ELSE /\ converted' =
                             [converted EXCEPT
                                !.services =
                                  Append(@, ServiceResultNg(service, out.path,
                                                            isContextProvider, failed))]
                        /\ idx' = idx + 1
                        /\ UNCHANGED <<pc, failure>>
     \/ /\ options.openAiApiKey
        /\ idx = Len(Services)
        /\ pc' = "convertPipes"
        /\ idx' = 0
        /\ UNCHANGED <<failure, converted, handed>>
  /\ UNCHANGED <<entry, rootExists, tree, options, files, classifiedFiles, groupedFiles,
                 groupedComponents, router, written>>

\* convertPipes: as convertServices
ConvertPipes ==
  /\ pc = "convertPipes"
  /\ \/ /\ ~options.openAiApiKey
        /\ Throw("convertPipes", "NoApiKey")
        /\ UNCHANGED <<idx, converted, handed>>
     \/ /\ options.openAiApiKey
        /\ idx < Len(Pipes)
        /\ \E outcome \in {"ok", "fail"} :
             LET pipe == Pipes[idx + 1]
                 read == ReadFile(DiskFiles(AngularProjectPath, tree), pipe.path)
                 failed == read.threw \/ outcome = "fail"
                 out == GeneratePipeOutputPath(pipe.path, options.outputPath)
             IN /\ handed' = IF read.threw THEN handed
                             ELSE Append(handed, Handed("convertPipes", pipe.path, outcome))
                /\ IF out.threw
                   THEN Throw("convertPipes", "TypeError") /\ UNCHANGED <<idx, converted>>
                   ELSE /\ converted' =
                             [converted EXCEPT
                                !.pipes = Append(@, PipeResult(pipe, out.path, failed))]
                        /\ idx' = idx + 1
                        /\ UNCHANGED <<pc, failure>>
     \/ /\ options.openAiApiKey
        /\ idx = Len(Pipes)
        /\ pc' = "generateRouterStructure"
        /\ idx' = 0
        /\ UNCHANGED <<failure, converted, handed>>
  /\ UNCHANGED <<entry, rootExists, tree, options, files, classifiedFiles, groupedFiles,
                 groupedComponents, router, written>>

\* ------------------------------------------------------------ the routers

\* findMainRoutingModule
FindMainRoutingModule(routingModules) ==
  LET Test(m) == Includes(m.path, <<"app-routing", ".", "module", ".", "ts">>)
  IN IF Find(routingModules, {pos \in DOMAIN routingModules : Test(routingModules[pos])}, NullFile) # NullFile
     THEN Find(routingModules, {pos \in DOMAIN routingModules : Test(routingModules[pos])}, NullFile)
     ELSE IF Len(routingModules) > 0 THEN routingModules[1]
     ELSE NullFile

\* the two files of a router structure
RouterFiles(outputPath) ==
  << [kind |-> "router", path |-> PathJoin(outputPath, <<"router", ".", "js">>), ok |-> TRUE],
     [kind |-> "app", path |-> PathJoin(outputPath, <<"App", ".", "js">>), ok |-> TRUE] >>

\* generateBasicRouterConfig: path.relative and path.join throw on an
\* undefined outputPath
GenerateBasicRouterConfig(convertedComponents, outputPath) ==
  IF outputPath = UndefinedPath
  THEN [threw |-> TRUE, router |-> NoRouter]
  ELSE [threw |-> FALSE, router |-> [kind |-> "basic", files |-> RouterFiles(outputPath)]]

\* generateRouterStructure: without an API key it throws.  With no routing
\* module the basic configuration is returned.  Otherwise the routing
\* modules are read, the component map is built and the collaborator is
\* called, all inside a try whose catch returns the basic configuration.
GenerateRouterStructure ==
  /\ pc = "generateRouterStructure"
  /\ \/ /\ ~options.openAiApiKey
        /\ Throw("generateRouterStructure", "NoApiKey")
        /\ UNCHANGED <<router, handed>>
     \/ /\ options.openAiApiKey
        /\ \E outcome \in {"ok", "fail"} :
             LET main == FindMainRoutingModule(RoutingModules)
                 disk == DiskFiles(AngularProjectPath, tree)
                 readable == \A i \in 1..Len(RoutingModules) :
                                ~ReadFile(disk, RoutingModules[i].path).threw
                 mapThrew == options.outputPath = UndefinedPath /\ converted.components # <<>>
                 called == main # NullFile /\ readable /\ ~mapThrew
                 basic == GenerateBasicRouterConfig(converted.components, options.outputPath)
             IN /\ handed' = IF called
                             THEN Append(handed, Handed("generateRouterStructure", main.path,
                                                        outcome))
                             ELSE handed
                /\ IF called /\ outcome = "ok" /\ options.outputPath # UndefinedPath
                   THEN /\ router' = [kind |-> "generated",
                                      files |-> RouterFiles(options.outputPath)]
                        /\ pc' = "writeOutputFiles"
                        /\ UNCHANGED failure
                   ELSE IF basic.threw
                   THEN Throw("generateRouterStructure", "TypeError") /\ UNCHANGED router
                   ELSE /\ router' = basic.router
                        /\ pc' = "writeOutputFiles"
                        /\ UNCHANGED failure
  /\ UNCHANGED <<entry, rootExists, tree, options, files, classifiedFiles, groupedFiles,
                 groupedComponents, idx, converted, written>>

\* What generateReactRouter gives when the collaborator's call fails.  The
\* catch of its try is not in the source; by the specification a failure is
\* recorded as an error result and the run goes on.
ReactRouterCatch == [kind |-> "error", files |-> <<>>]

\* generateReactRouter: the basic set-up when there is no route
\* configuration, and the collaborator's answer otherwise
GenerateReactRouter ==
  /\ pc = "generateReactRouter"
  /\ \E outcome \in {"ok", "fail"} :
       IF Len(groupedFiles.routeConfigs) = 0
       THEN /\ router' = [kind |-> "basic", files |-> <<>>]
            /\ UNCHANGED handed
       ELSE /\ router' = IF outcome = "ok" THEN [kind |-> "generated", files |-> <<>>]
                         ELSE ReactRouterCatch
            /\ handed' = Append(handed, Handed("generateReactRouter",
                                                groupedFiles.routeConfigs[1].path, outcome))
  /\ pc' = "writeOutputFilesJS"
  /\ UNCHANGED <<entry, rootExists, tree, options, failure, files, classifiedFiles,
                 groupedFiles, groupedComponents, idx, converted, written>>

\* ------------------------------------------------------------ the writers

\* one write of the run
WriteJob(kind, path) == [kind |-> kind, path |-> path, ok |-> TRUE]

\* The writes of writeOutputFiles (src/writer.js) in order: the output
\* directory, the components, the services, the pipes, the router files,
\* package.json, index.js and index.html.
WriteJobs ==
  <<WriteJob("mkdir", OutputPath)>>
  \o [i \in 1..Len(converted.components) |->
        WriteJob("component", converted.components[i].outputPath)]
  \o [i \in 1..Len(converted.services) |->
        WriteJob("service", converted.services[i].outputPath)]
  \o [i \in 1..Len(converted.pipes) |-> WriteJob("pipe", converted.pipes[i].outputPath)]
  \o router.files
  \o << WriteJob("package", PathJoin(OutputPath, <<"package", ".", "json">>)),
        WriteJob("index", PathJoin(OutputPath, <<"index", ".", "js">>)),
        WriteJob("html", PathJoin(OutputPath, <<"index", ".", "html">>)) >>

\* writeOutputFiles of src/writer.js: the writes are awaited one after the
\* other inside one try; the catch logs the first error and throws it
\* again, and convertAngularToReact's catch throws it again.
WriteOutputFiles ==
  /\ pc = "writeOutputFiles"
  /\ \/ /\ idx < Len(WriteJobs)
        /\ \E outcome \in {"ok", "fail"} :
             IF outcome = "ok"
             THEN /\ written' = Append(written, WriteJobs[idx + 1])
                  /\ idx' = idx + 1
                  /\ UNCHANGED <<pc, failure>>
             ELSE Throw("writeOutputFiles", "EIO") /\ UNCHANGED <<idx, written>>
     \/ /\ idx = Len(WriteJobs)
        /\ pc' = "done"
        /\ idx' = 0
        /\ UNCHANGED <<failure, written>>
  /\ UNCHANGED <<entry, rootExists, tree, options, files, classifiedFiles, groupedFiles,
                 groupedComponents, converted, router, handed>>

\* The writes main asks of its writer: the components (controllers, then
\* directives), the services, the filters and the router.
WriteJobsJS ==
  [i \in 1..Len(converted.controllers) |->
     WriteJob("component", converted.controllers[i].outputPath)]
  \o [i \in 1..Len(converted.directives) |->
        WriteJob("component", converted.directives[i].outputPath)]
  \o [i \in 1..Len(converted.services) |->
        WriteJob("service", converted.services[i].outputPath)]
  \o [i \in 1..Len(converted.filters) |-> WriteJob("filter", converted.filters[i].outputPath)]
  \o <<WriteJob("router", <<"router", ".", "js">>)>>

\* The writer main imports from './writer' is not in the source.  By the
\* specification a failed write is recorded for its item and the remaining
\* files are still written.
WriteOutputFilesJS ==
  /\ pc = "writeOutputFilesJS"
  /\ \/ /\ idx < Len(WriteJobsJS)
        /\ \E outcome \in {"ok", "fail"} :
             written' = Append(written, [WriteJobsJS[idx + 1] EXCEPT !.ok = (outcome = "ok")])
        /\ idx' = idx + 1
        /\ UNCHANGED pc
     \/ /\ idx = Len(WriteJobsJS)
        /\ pc' = "done"
        /\ idx' = 0
        /\ UNCHANGED written
  /\ UNCHANGED <<entry, rootExists, tree, options, failure, files, classifiedFiles,
                 groupedFiles, groupedComponents, converted, router, handed>>

Next ==
  \/ Start
  \/ ScanProject
  \/ ScanAngularJSProject
  \/ GroupComponentFilesCall
  \/ GroupAngularJSFilesCall
  \/ EnsureOutputDirectory
  \/ ConvertControllers
  \/ ConvertDirectives
  \/ ConvertServicesJS
  \/ ConvertFilters
  \/ GenerateReactRouter
  \/ WriteOutputFilesJS
  \/ ConvertComponents
  \/ ConvertServices
  \/ ConvertPipes
  \/ GenerateRouterStructure
  \/ WriteOutputFiles

Spec == Init /\ [][Next]_vars

\* -------------------------------------------------------------- properties

\* The stages of a run, in the order of their calls.
MainStages ==
  <<"scanAngularJSProject", "groupAngularJSFiles", "mkdirSync", "convertControllers",
    "convertDirectives", "convertServicesJS", "convertFilters", "generateReactRouter",
    "writeOutputFilesJS", "done">>

NgStages ==
  <<"scanProject", "groupComponentFiles", "convertComponents", "convertServices",
    "convertPipes", "generateRouterStructure", "writeOutputFiles", "done">>

Stages ==
  CASE entry = "main" -> MainStages
    [] entry = "convertAngularToReact" -> NgStages
    [] OTHER -> <<"convertComponents", "returned">>

\* The position of stage s in the run, 0 where the run has no such stage.
StageIndex(s) ==
  IF \E i \in DOMAIN Stages : Stages[i] = s
  THEN CHOOSE i \in DOMAIN Stages : Stages[i] = s
  ELSE 0

\* The stage the run is in, or was aborted in.
Stage == IF pc = "failed" THEN failure.at ELSE pc

\* Stage s has returned and the run went on.
Returned(s) == StageIndex(s) > 0 /\ StageIndex(Stage) > StageIndex(s)

\* Stage s is over: it has returned, or the run was aborted in it.
Over(s) == Returned(s) \/ (StageIndex(s) > 0 /\ pc = "failed" /\ failure.at = s)

\* A pipeline run, as opposed to a call of one converter.
PipelineRun == entry \in {"main", "convertAngularToReact"}

\* The scan has just returned its list to the run.
ScanReturned == pc \in {"groupAngularJSFiles", "groupComponentFiles"}

\* Grouping has just returned its inventory to the run.
GroupingReturned ==
  \/ entry = "main" /\ pc = "mkdirSync"
  \/ entry = "convertAngularToReact" /\ pc = "convertComponents" /\ idx = 0

\* Grouping has returned its inventory.
Grouped ==
  \/ entry = "main" /\ Returned("groupAngularJSFiles")
  \/ entry = "convertAngularToReact" /\ Returned("groupComponentFiles")

\* The files the scanner kept.
Kept == IF entry = "main" THEN files ELSE classifiedFiles

\* The units of the inventory, as the paths of their three slots; <<>> is
\* an empty slot.
Units ==
  IF entry = "main"
  THEN [i \in DOMAIN groupedFiles.controllers |->
          [primary |-> groupedFiles.controllers[i].controller.path,
           template |-> groupedFiles.controllers[i].template.path,
           style |-> groupedFiles.controllers[i].css.path]]
       \o [i \in DOMAIN groupedFiles.directives |->
             [primary |-> groupedFiles.directives[i].directive.path,
              template |-> groupedFiles.directives[i].template.path,
              style |-> groupedFiles.directives[i].css.path]]
  ELSE [i \in DOMAIN groupedComponents |->
          [primary |-> groupedComponents[i].component.path,
           template |-> groupedComponents[i].template.path,
           style |-> groupedComponents[i].style.path]]

\* The buckets of the inventory: the lists of files handed on ungrouped.
Buckets ==
  IF entry = "main"
  THEN <<groupedFiles.services, groupedFiles.filters, groupedFiles.routeConfigs,
         groupedFiles.configs, groupedFiles.others>>
  ELSE <<Services, Pipes, RoutingModules>>

\* The places of the inventory that hold the file at path p: the slots of
\* units and the entries of buckets.
Places(p) ==
  {<<"unit", i, "primary">> : i \in {j \in DOMAIN Units : Units[j].primary = p}}
  \cup {<<"unit", i, "template">> : i \in {j \in DOMAIN Units : Units[j].template = p}}
  \cup {<<"unit", i, "style">> : i \in {j \in DOMAIN Units : Units[j].style = p}}
  \cup UNION {{<<"bucket", b, i>> : i \in {j \in DOMAIN Buckets[b] : Buckets[b][j].path = p}} :
                b \in DOMAIN Buckets}

\* C1: after grouping, no template file and no style file is referenced by
\* more than one unit.
C1_NoFileClaimedTwice ==
  (PipelineRun /\ Grouped) =>
    \A i, j \in DOMAIN Units :
      i # j =>
        /\ Units[i].template # <<>> => Units[i].template # Units[j].template
        /\ Units[i].style # <<>> => Units[i].style # Units[j].style

\* C2: every file kept by the scanner appears in exactly one place of the
\* grouped inventory: a slot of one unit, or an entry of one bucket.
C2_ExhaustivePartition ==
  (PipelineRun /\ Grouped) =>
    \A k \in DOMAIN Kept : Cardinality(Places(Kept[k].path)) = 1

\* The controller and directive groups of main's inventory, with the
\* primary file of each.
JsGroups ==
  [i \in DOMAIN groupedFiles.controllers |->
     [primary |-> groupedFiles.controllers[i].controller,
      template |-> groupedFiles.controllers[i].template,
      css |-> groupedFiles.controllers[i].css]]
  \o [i \in DOMAIN groupedFiles.directives |->
        [primary |-> groupedFiles.directives[i].directive,
         template |-> groupedFiles.directives[i].template,
         css |-> groupedFiles.directives[i].css]]

HtmlFiles == LET Test(f) == IsType(f, "html") IN Filter(files, {pos \in DOMAIN files : Test(files[pos])})

CssFiles == LET Test(f) == IsType(f, "css") IN Filter(files, {pos \in DOMAIN files : Test(files[pos])})

\* The scanned style sheet a styleUrl in the primary file's content resolves
\* to, by the rule that resolves a templateUrl.
StyleByUrl(primary) ==
  LET stylePath == MatchProp(primary.content, "styleUrl")
      Test(cssFile) == TemplateUrlMatches(cssFile, stylePath)
  IN IF stylePath # <<>> THEN Find(CssFiles, {pos \in DOMAIN CssFiles : Test(CssFiles[pos])}, Undefined) ELSE Undefined

\* The primary file of group g declares a template reference that resolves
\* to one scanned file while the naming convention matches another.
TemplateContested(g) ==
  /\ TemplateByUrl(g.primary, HtmlFiles) # Undefined
  /\ TemplateByConvention(g.primary, HtmlFiles) # Undefined
  /\ TemplateByUrl(g.primary, HtmlFiles) # TemplateByConvention(g.primary, HtmlFiles)

\* The same of the style reference.
StyleContested(g) ==
  /\ StyleByUrl(g.primary) # Undefined
  /\ CssOf(g.primary, CssFiles) # Undefined
  /\ StyleByUrl(g.primary) # CssOf(g.primary, CssFiles)

JsCategories ==
  {"controller", "directive", "service", "filter", "config", "route", "js", "html", "css"}

\* The categories classifyFile gives a kept file.
NgCategories ==
  {"component", "service", "pipe", "module", "directive", "guard", "interceptor",
   "model", "other-ts", "template", "style"}

\* C4: every file of the list a scan returns has exactly one category, of
\* the closed set, and the category is that of the file's own name and
\* content wherever the file
\* lies and whenever it is visited: it is the classifier's answer for the
\* bare file name, and two files of one name and content have one category.
C4_ClassificationByNameAndContent ==
  ScanReturned =>
  /\ \A i \in DOMAIN files :
       /\ files[i].type \in JsCategories
       /\ files[i].type = ClassifyAngularJSFile(PathBasename(files[i].path), files[i].content)
       /\ \A j \in DOMAIN files :
            (/\ PathBasename(files[i].path) = PathBasename(files[j].path)
             /\ files[i].content = files[j].content) => files[i].type = files[j].type
  /\ \A i \in DOMAIN classifiedFiles :
       /\ classifiedFiles[i].type \in NgCategories
       /\ classifiedFiles[i].type = ClassifyFile(PathBasename(classifiedFiles[i].path)).type
       /\ \A j \in DOMAIN classifiedFiles :
            PathBasename(classifiedFiles[i].path) = PathBasename(classifiedFiles[j].path)
              => classifiedFiles[i].type = classifiedFiles[j].type

\* two files of one name and content in two directories have been scanned
\* and classified
C4_Witness ==
  \E i, j \in DOMAIN files :
    /\ files[i].path # files[j].path
    /\ PathBasename(files[i].path) = PathBasename(files[j].path)
    /\ files[i].content = files[j].content
    /\ PathDirname(files[j].path) # PathDirname(files[i].path)
    /\ Includes(PathDirname(files[j].path), <<"controller">>)

\* C5: in a pipeline run the failed state is entered only from scanning, by
\* an inaccessible root: no failure of grouping, converting or writing
\* aborts the run.
C5_FailedOnlyFromScanning ==
  (PipelineRun /\ pc = "failed") =>
    /\ failure.at \in {"scanProject", "scanAngularJSProject"}
    /\ ~rootExists

\* The converters with a loop over a list of items.
Converters ==
  {"convertComponents", "convertServices", "convertPipes", "convertControllers",
   "convertDirectives", "convertServicesJS", "convertFilters"}

\* The paths of the items of the list converter c is called with.
InputPaths(c) ==
  CASE c = "convertComponents" ->
         [i \in DOMAIN groupedComponents |-> groupedComponents[i].component.path]
    [] c = "convertServices" -> [i \in DOMAIN Services |-> Services[i].path]
    [] c = "convertPipes" -> [i \in DOMAIN Pipes |-> Pipes[i].path]
    [] c = "convertControllers" ->
         [i \in DOMAIN groupedFiles.controllers |->
            groupedFiles.controllers[i].controller.path]
    [] c = "convertDirectives" ->
         [i \in DOMAIN groupedFiles.directives |->
            groupedFiles.directives[i].directive.path]
    [] c = "convertServicesJS" ->
         [i \in DOMAIN groupedFiles.services |-> groupedFiles.services[i].path]
    [] c = "convertFilters" ->
         [i \in DOMAIN groupedFiles.filters |-> groupedFiles.filters[i].path]

\* The array converter c returns.
ResultOf(c) ==
  CASE c = "convertComponents" -> converted.components
    [] c = "convertServices" -> converted.services
    [] c = "convertPipes" -> converted.pipes
    [] c = "convertControllers" -> converted.controllers
    [] c = "convertDirectives" -> converted.directives
    [] c = "convertServicesJS" -> converted.services
    [] c = "convertFilters" -> converted.filters

\* The calls of the collaborator by converter c that failed.
FailedCalls(c) ==
  {n \in DOMAIN handed : handed[n].converter = c /\ handed[n].outcome = "fail"}

\* C6: when the collaborator fails for one item of a converter's list, every
\* item of the list is still handed to the collaborator by the time the
\* converter is over.
C6_FailureDoesNotStopTheLoop ==
  \A c \in Converters :
    (Over(c) /\ FailedCalls(c) # {}) =>
      \A k \in DOMAIN InputPaths(c) :
        \E n \in DOMAIN handed :
          handed[n].converter = c /\ handed[n].item = InputPaths(c)[k]

\* A result entry that is the placeholder of a failed conversion.
IsPlaceholder(r) == "error" \in DOMAIN r /\ r.error # ""

\* C7: a converter that has returned gives one result entry per input item,
\* and one placeholder recording the error per item the collaborator failed
\* for.
C7_OneResultPerItem ==
  \A c \in Converters :
    Returned(c) =>
      /\ Len(ResultOf(c)) = Len(InputPaths(c))
      /\ Cardinality({k \in DOMAIN ResultOf(c) : IsPlaceholder(ResultOf(c)[k])})
           = Cardinality(FailedCalls(c))

\* The files the writer of the run is asked to write.
JobsOfRun == IF entry = "main" THEN WriteJobsJS ELSE WriteJobs

\* C8: a failed write does not stop the run: the run is not aborted in the
\* writer, and it ends with every output file attempted.
C8_WriteFailureDoesNotStopTheRun ==
  PipelineRun =>
    /\ ~(pc = "failed" /\ failure.at \in {"writeOutputFiles", "writeOutputFilesJS"})
    /\ pc = "done" => Len(written) = Len(JobsOfRun)

\* C9: when the root path does not exist the run goes from scanning to the
\* failed state with the error of the missing root, and nothing is
\* classified, grouped, converted or written and no collaborator is called.
C9_MissingRootFailsTheRun ==
  (PipelineRun /\ ~rootExists) =>
    /\ pc \in {"idle", "scanProject", "scanAngularJSProject", "failed"}
    /\ pc = "failed" =>
         /\ failure.at \in {"scanProject", "scanAngularJSProject"}
         /\ failure.error = "ENOENT"
    /\ files = <<>>
    /\ classifiedFiles = <<>>
    /\ groupedFiles = EmptyGroupedFiles
    /\ groupedComponents = <<>>
    /\ converted = NoConverted
    /\ router = NoRouter
    /\ handed = <<>>
    /\ written = <<>>

\* a run of convertAngularToReact on a missing root has ended in the failed
\* state, aborted by scanProject
C9_Witness ==
  /\ entry = "convertAngularToReact"
  /\ ~rootExists
  /\ pc = "failed"
  /\ failure = [at |-> "scanProject", error |-> "ENOENT"]

\* Scenario A: the project directory holds exactly foo.component.ts,
\* foo.component.html and foo.component.scss.
ScenarioA ==
  /\ entry = "convertAngularToReact"
  /\ rootExists
  /\ Len(tree) = 3
  /\ {tree[i].name : i \in DOMAIN tree}
       = {<<"foo", ".", "component", ".", "ts">>,
          <<"foo", ".", "component", ".", "html">>,
          <<"foo", ".", "component", ".", "scss">>}
  /\ \A i \in DOMAIN tree : ~tree[i].isDir /\ tree[i].ok

\* C10: scanning and grouping scenario A yield exactly one unit, named foo,
\* whose template is foo.component.html and whose style is
\* foo.component.scss.
C10_ScenarioAOneUnit ==
  (ScenarioA /\ Over("groupComponentFiles")) =>
    /\ Len(groupedComponents) = 1
    /\ groupedComponents[1].name = <<"foo">>
    /\ groupedComponents[1].component.path
         = PathJoin(AngularProjectPath, <<"foo", ".", "component", ".", "ts">>)
    /\ groupedComponents[1].template.path
         = PathJoin(AngularProjectPath, <<"foo", ".", "component", ".", "html">>)
    /\ groupedComponents[1].style.path
         = PathJoin(AngularProjectPath, <<"foo", ".", "component", ".", "scss">>)

\* Scenario B: the scanned set is the one file bar.js, whose content
\* registers a controller named barCtrl; there is no .html file.
ScenarioB ==
  /\ entry = "main"
  /\ Len(files) = 1
  /\ PathBasename(files[1].path) = <<"bar", ".", "js">>
  /\ MatchCall(files[1].content, "controller") = <<"barCtrl">>

\* C11: grouping scenario B yields exactly one unit, the controller group
\* named barCtrl, with no template and no style.
C11_ScenarioBOneUnit ==
  (ScenarioB /\ Grouped) =>
    /\ Len(groupedFiles.controllers) = 1
    /\ groupedFiles.directives = <<>>
    /\ groupedFiles.controllers[1].controller = files[1]
    /\ groupedFiles.controllers[1].name = <<"barCtrl">>
    /\ groupedFiles.controllers[1].template = Undefined
    /\ groupedFiles.controllers[1].css = Undefined

\* scenario B has been scanned and grouped
C11_Witness ==
  /\ ScenarioB
  /\ Grouped
  /\ Len(groupedFiles.controllers) = 1

\* The positions of the scanned files named baz.service.ts.
BazServices ==
  {k \in DOMAIN classifiedFiles :
     PathBasename(classifiedFiles[k].path) = <<"baz", ".", "service", ".", "ts">>}

\* C12: a file named baz.service.ts is classified a service, is once in the
\* list of services convertServices is called with, in no other bucket, and
\* is never the primary, template or style of a grouped unit.
C12_ScenarioCServiceBucket ==
  entry = "convertAngularToReact" =>
    \A k \in BazServices :
      /\ classifiedFiles[k].type = "service"
      /\ Cardinality({n \in DOMAIN Services : Services[n] = classifiedFiles[k]}) = 1
      /\ Cardinality({n \in DOMAIN InputPaths("convertServices") :
                        InputPaths("convertServices")[n] = classifiedFiles[k].path}) = 1
      /\ \A n \in DOMAIN Pipes : Pipes[n].path # classifiedFiles[k].path
      /\ \A n \in DOMAIN RoutingModules : RoutingModules[n].path # classifiedFiles[k].path
      /\ \A n \in DOMAIN Units :
           classifiedFiles[k].path \notin {Units[n].primary, Units[n].template, Units[n].style}

\* convertServices has been called with baz.service.ts in its list and has
\* taken it up
C12_Witness ==
  /\ entry = "convertAngularToReact"
  /\ BazServices # {}
  /\ Over("convertServices")
  /\ \E n \in DOMAIN handed :
       /\ handed[n].converter = "convertServices"
       /\ PathBasename(handed[n].item) = <<"baz", ".", "service", ".", "ts">>

\* The primary file of group g declares a templateUrl that no scanned .html
\* file matches.
TemplateUnresolved(g) ==
  /\ MatchProp(g.primary.content, "templateUrl") # <<>>
  /\ \A h \in DOMAIN HtmlFiles :
       ~TemplateUrlMatches(HtmlFiles[h], MatchProp(g.primary.content, "templateUrl"))

\* The scanned .html files the naming convention matches with the primary
\* file of group g.
ConventionTemplates(g) ==
  {HtmlFiles[h] : h \in {n \in DOMAIN HtmlFiles :
     IF g.primary.type = "controller"
     THEN ControllerTemplateMatches(HtmlFiles[n], PathBasenameExt(g.primary.path, JsExt))
     ELSE DirectiveTemplateMatches(HtmlFiles[n], PathBasenameExt(g.primary.path, JsExt))}}

\* C13: grouping never throws, and every controller and directive file gets
\* its unit; where the file's templateUrl matches no scanned file the
\* template slot holds a file the naming convention matches, and it is
\* empty when the convention matches none.
C13_UnresolvedReferenceFallsThrough ==
  /\ ~(pc = "failed" /\ failure.at = "groupAngularJSFiles")
  /\ (entry = "main" /\ Grouped) =>
       /\ \A k \in DOMAIN files :
            files[k].type \in {"controller", "directive"} =>
              \E i \in DOMAIN JsGroups : JsGroups[i].primary = files[k]
       /\ \A i \in DOMAIN JsGroups :
            TemplateUnresolved(JsGroups[i]) =>
              IF ConventionTemplates(JsGroups[i]) = {}
              THEN JsGroups[i].template = Undefined
              ELSE JsGroups[i].template \in ConventionTemplates(JsGroups[i])

\* one unit whose templateUrl matches no file holds the file of the naming
\* convention, and another, for which the convention matches none either,
\* has been produced with an empty template slot
C13_Witness ==
  /\ entry = "main"
  /\ Grouped
  /\ \E i, j \in DOMAIN JsGroups :
       /\ TemplateUnresolved(JsGroups[i])
       /\ JsGroups[i].template # Undefined
       /\ TemplateUnresolved(JsGroups[j])
       /\ ConventionTemplates(JsGroups[j]) = {}
       /\ JsGroups[j].template = Undefined

\* The path p lies under a directory named name.
UnderDirectory(p, name) == Includes(p, <<"/">> \o name \o <<"/">>)

\* The path p lies under a directory whose name starts with a dot.
UnderDotDirectory(p) ==
  \E i \in 1..(Len(p) - 1) :
    /\ p[i] = "/"
    /\ p[i + 1] = "."
    /\ \E j \in (i + 2)..Len(p) : p[j] = "/"

\* Every file of the scanned tree, excluded directories included.
TreeFiles ==
  DiskFiles(IF entry = "main" THEN ANGULARJS_PROJECT_PATH ELSE AngularProjectPath, tree)

\* C14: no path of a scan result lies under an excluded directory, at any
\* depth: node_modules and dist for scanProject, node_modules and the
\* directories whose name starts with a dot for scanAngularJSProject.
C14_NothingUnderExcludedDirectories ==
  ScanReturned =>
  /\ \A k \in DOMAIN classifiedFiles :
       /\ ~UnderDirectory(classifiedFiles[k].path, <<"node_modules">>)
       /\ ~UnderDirectory(classifiedFiles[k].path, <<"dist">>)
  /\ \A k \in DOMAIN files :
       /\ ~UnderDirectory(files[k].path, <<"node_modules">>)
       /\ ~UnderDotDirectory(files[k].path)

\* scanProject has returned the files of a directory that holds an excluded
\* directory, below the project directory, with a .ts file in it
C14_Witness ==
  /\ entry = "convertAngularToReact"
  /\ \E k \in DOMAIN classifiedFiles :
       UnderDirectory(classifiedFiles[k].path, <<"model">>)
  /\ \E f \in TreeFiles :
       /\ UnderDirectory(f.path, <<"model", "/", "node_modules">>)
       /\ PathExtname(f.path) = TsExt

\* The files of a directory tree, each with its position: the indices of
\* the entries that lead to it, directory by directory.
RECURSIVE TreePositions(_, _, _)
TreePositions(dir, entries, prefix) ==
  UNION {IF entries[i].isDir
         THEN TreePositions(PathJoin(dir, entries[i].name), entries[i].entries,
                            Append(prefix, i))
         ELSE {[path |-> PathJoin(dir, entries[i].name), pos |-> Append(prefix, i)]} :
         i \in DOMAIN entries}

\* Position a comes before position b in a depth-first walk.
Before(a, b) ==
  \E k \in 1..Len(a) :
    /\ k <= Len(b)
    /\ a[k] < b[k]
    /\ \A m \in 1..(k - 1) : a[m] = b[m]

\* The scan of the run has returned its list.
Scanned ==
  \/ entry = "main" /\ Returned("scanAngularJSProject")
  \/ entry = "convertAngularToReact" /\ Returned("scanProject")

\* The files a scan is to list: those with a recognized extension that lie
\* under no excluded directory.
Expected ==
  IF entry = "main"
  THEN {f \in TreePositions(ANGULARJS_PROJECT_PATH, tree, <<>>) :
          /\ PathExtname(f.path) \in {JsExt, HtmlExt, CssExt, LessExt, ScssExt}
          /\ ~UnderDirectory(f.path, <<"node_modules">>)
          /\ ~UnderDotDirectory(f.path)}
  ELSE {f \in TreePositions(AngularProjectPath, tree, <<>>) :
          /\ PathExtname(f.path) \in {TsExt, HtmlExt, ScssExt, CssExt}
          /\ ~UnderDirectory(f.path, <<"node_modules">>)
          /\ ~UnderDirectory(f.path, <<"dist">>)}

\* The position in the tree of the file at path p.
PositionOf(p) == (CHOOSE f \in Expected : f.path = p).pos

\* A scan that has returned lists every file with a recognized extension
\* outside the excluded directories, each once, in the order of a
\* depth-first walk of the tree.
ScanListsEveryFileOnce ==
  (PipelineRun /\ ScanReturned) =>
    /\ {Kept[k].path : k \in DOMAIN Kept} = {f.path : f \in Expected}
    /\ LET position == [k \in DOMAIN Kept |-> PositionOf(Kept[k].path)]
       IN \A i, j \in DOMAIN Kept :
            i < j =>
              /\ Kept[i].path # Kept[j].path
              /\ Before(position[i], position[j])

\* C15: the scan of a tree is over in one step, which leaves the scanning
\* stage with the scan returned or the run failed, and a scan that has
\* returned lists every file with a recognized extension outside the
\* excluded directories, each once, in depth-first order.
C15_ScanListsEveryFileOnce ==
  /\ []ScanListsEveryFileOnce
  /\ [][(PipelineRun /\ pc \in {"scanProject", "scanAngularJSProject"}) =>
         (ScanReturned' \/ pc' = "failed")]_vars

\* a scan has returned the files of a tree with a directory between two
\* files, an excluded directory and a file of no recognized extension
C15_Witness ==
  /\ PipelineRun
  /\ ScanReturned
  /\ Len(Kept) >= 3
  /\ \E i \in DOMAIN Kept : Len(PositionOf(Kept[i].path)) = 2
  /\ \E i \in DOMAIN tree : tree[i].isDir /\ tree[i].name \in {<<"node_modules">>, <<"dist">>}
  /\ Cardinality(Expected) < Cardinality(TreeFiles)

\* The entries of the root the scanner fails to read: a directory it
\* descends into whose readdir throws, or, for scanAngularJSProject, a file
\* with a recognized extension whose readFileSync throws.
FailingEntries ==
  {i \in DOMAIN tree :
     /\ ~tree[i].ok
     /\ IF tree[i].isDir
        THEN IF entry = "main"
             THEN /\ ~StartsWith(tree[i].name, <<"node_modules">>)
                  /\ ~StartsWith(tree[i].name, <<".">>)
             ELSE tree[i].name \notin {<<"node_modules">>, <<"dist">>}
        ELSE /\ entry = "main"
             /\ PathExtname(tree[i].name) \in {JsExt, HtmlExt, CssExt, LessExt, ScssExt}}

\* C16: in a run on an accessible root an entry the scanner fails to read is
\* skipped: the run is not aborted in the scan, and the scan returns every
\* file it is to list that lies outside the failing entries.
C16_UnreadableEntryIsSkipped ==
  (PipelineRun /\ rootExists) =>
    /\ ~(pc = "failed" /\ failure.at \in {"scanProject", "scanAngularJSProject"})
    /\ (Scanned /\ FailingEntries # {}) =>
         \A f \in Expected :
           f.pos[1] \notin FailingEntries =>
             \E k \in DOMAIN Kept : Kept[k].path = f.path

\* The conversion stages of convertAngularToReact.
ConversionStages ==
  {"convertComponents", "convertServices", "convertPipes", "generateRouterStructure"}

\* C17: no failure of a converter, a missing API key included, leaves the
\* conversion stage as an exception: a run of convertAngularToReact is never
\* aborted in convertComponents, convertServices, convertPipes or
\* generateRouterStructure.
C17_ConvertersDoNotThrow ==
  entry = "convertAngularToReact" =>
    ~(pc = "failed" /\ failure.at \in ConversionStages)

\* The categories whose files are the primary files of units.
PrimaryCategories == {"component", "controller", "directive"}

\* The grouping stage of the run.
GroupingStage ==
  IF entry = "main" THEN "groupAngularJSFiles" ELSE "groupComponentFiles"

\* C18: once grouping is over, every kept file classified component,
\* controller or directive is the primary file of exactly one unit, and
\* every unit has one primary file, which is such a file.
C18_EveryPrimaryFileHasOneUnit ==
  (PipelineRun /\ Over(GroupingStage)) =>
    /\ \A k \in DOMAIN Kept :
         Kept[k].type \in PrimaryCategories =>
           Cardinality({i \in DOMAIN Units : Units[i].primary = Kept[k].path}) = 1
    /\ \A i \in DOMAIN Units :
         \E k \in DOMAIN Kept :
           /\ Kept[k].path = Units[i].primary
           /\ Kept[k].type \in PrimaryCategories

\* The conversion stages are over and the run has reached writing.
ReachedWriting ==
  \/ entry = "main" /\ Returned("generateReactRouter")
  \/ entry = "convertAngularToReact" /\ Returned("generateRouterStructure")

\* The calls of a collaborator with the file at path p.
CallsWith(p) == {n \in DOMAIN handed : handed[n].item = p}

\* The kept files that are definitions: neither templates nor style sheets.
Definitions ==
  {k \in DOMAIN Kept : Kept[k].type \notin {"html", "css", "template", "style"}}

\* C19: when the run reaches writing, every unit and every entry of a
\* bucket, of whatever kind of definition, has been handed to a collaborator
\* exactly once.
C19_EveryItemHandedOnce ==
  (PipelineRun /\ ReachedWriting) =>
    /\ \A i \in DOMAIN Units : Cardinality(CallsWith(Units[i].primary)) = 1
    /\ \A b \in DOMAIN Buckets :
         \A i \in DOMAIN Buckets[b] : Cardinality(CallsWith(Buckets[b][i].path)) = 1
    /\ \A k \in Definitions : Cardinality(CallsWith(Kept[k].path)) = 1

\* The extensions the scanner of the run keeps.
RecognizedExtensions ==
  IF entry = "main" THEN {JsExt, HtmlExt, CssExt, LessExt, ScssExt}
  ELSE {TsExt, HtmlExt, ScssExt, CssExt}

\* The files of the tree whose extension the scanner does not keep.
Unrecognized == {f \in TreeFiles : PathExtname(f.path) \notin RecognizedExtensions}

\* C20: a file whose extension is not recognized is not in the scan result
\* when the scan returns nor in the inventory when grouping returns, so
\* that it has no category, the category unknown is given to no file, and
\* the file is in no slot of a unit and in no bucket.
C20_UnrecognizedExtensionIsDropped ==
  (PipelineRun /\ (ScanReturned \/ GroupingReturned)) =>
    /\ \A f \in Unrecognized :
         /\ \A k \in DOMAIN Kept : Kept[k].path # f.path
         /\ Places(f.path) = {}
    /\ \A k \in DOMAIN Kept :
         /\ PathExtname(Kept[k].path) \in RecognizedExtensions
         /\ Kept[k].type \in JsCategories \cup NgCategories
         /\ Kept[k].type \notin {"unknown", "unclassified"}

\* the scan of a tree holding a file of no recognized extension has kept
\* other files, and they have been grouped
C20_Witness ==
  /\ PipelineRun
  /\ Grouped
  /\ Unrecognized # {}
  /\ Kept # <<>>
  /\ \E i \in DOMAIN tree :
       /\ ~tree[i].isDir
       /\ tree[i].ok
       /\ PathExtname(tree[i].name) \notin RecognizedExtensions

\* The suffix rules of the file names of scripts: the definition suffix of
\* a name and the category it stands for.
JsSuffixRules ==
  << [suffix |-> <<".", "controller", ".", "js">>, type |-> "controller"],
     [suffix |-> <<".", "directive", ".", "js">>, type |-> "directive"],
     [suffix |-> <<".", "service", ".", "js">>, type |-> "service"],
     [suffix |-> <<".", "filter", ".", "js">>, type |-> "filter"] >>

\* The suffix rules of classifyFile, in the order of its tests.
NgSuffixRules ==
  << [suffix |-> <<".", "component", ".", "ts">>, type |-> "component"],
     [suffix |-> <<".", "service", ".", "ts">>, type |-> "service"],
     [suffix |-> <<".", "pipe", ".", "ts">>, type |-> "pipe"],
     [suffix |-> <<".", "module", ".", "ts">>, type |-> "module"],
     [suffix |-> <<".", "directive", ".", "ts">>, type |-> "directive"],
     [suffix |-> <<".", "guard", ".", "ts">>, type |-> "guard"],
     [suffix |-> <<".", "interceptor", ".", "ts">>, type |-> "interceptor"] >>

SuffixRules == IF entry = "main" THEN JsSuffixRules ELSE NgSuffixRules

\* The rules of the table the name of the file at path p matches.
MatchingRules(p) ==
  {r \in DOMAIN SuffixRules : EndsWith(PathBasename(p), SuffixRules[r].suffix)}

\* The least of a set of positions.
First(S) == CHOOSE r \in S : \A q \in S : r <= q

\* C21: a kept file whose name matches a suffix rule has the category of the
\* first rule it matches, whatever its content.
C21_SuffixRuleWins ==
  PipelineRun =>
    \A k \in DOMAIN Kept :
      MatchingRules(Kept[k].path) # {} =>
        Kept[k].type = SuffixRules[First(MatchingRules(Kept[k].path))].type

\* The families of content tokens, in the order classifyAngularJSFile looks
\* for them.
Families == <<"controller", "directive", "service", "filter", "config", "route">>

\* The content holds a token of family n.
HoldsFamily(content, n) ==
  CASE Families[n] = "controller" ->
         IncludesCall(content, "controller") \/ IncludesWord(content, "$controller")
    [] Families[n] = "directive" ->
         IncludesCall(content, "directive") \/ IncludesWord(content, "$compile")
    [] Families[n] = "service" ->
         \/ IncludesCall(content, "service")
         \/ IncludesCall(content, "factory")
         \/ IncludesCall(content, "provider")
    [] Families[n] = "filter" -> IncludesCall(content, "filter")
    [] Families[n] = "config" -> IncludesCall(content, "config")
    [] Families[n] = "route" ->
         IncludesWord(content, "$routeProvider") \/ IncludesWord(content, "$stateProvider")

\* The families the content holds a token of.
ContentFamilies(content) == {n \in DOMAIN Families : HoldsFamily(content, n)}

\* The words of a file name that tell a family.
FamilyWords ==
  {"controller", "directive", "service", "factory", "provider", "filter", "route", "routes"}

\* The name of the file at path p holds no word of a family.
PlainName(p) ==
  \A w \in FamilyWords : ~Includes(ToLowerCase(PathBasename(p)), <<w>>)

\* The kept scripts whose category is told by their content alone.
SniffedScripts ==
  {k \in DOMAIN files : PathExtname(files[k].path) = JsExt /\ PlainName(files[k].path)}

NamedUnits ==
  IF entry = "main"
  THEN [i \in DOMAIN JsGroups |->
          [name |-> (groupedFiles.controllers
                     \o groupedFiles.directives)[i].name,
           primary |-> JsGroups[i].primary]]
  ELSE [i \in DOMAIN groupedComponents |->
          [name |-> groupedComponents[i].name,
           primary |-> groupedComponents[i].component]]

\* The name the content of a primary file declares: the quoted name of the
\* registration call of its category, <<>> where there is none.
DeclaredName(primary) ==
  IF entry = "main" /\ primary.type \in {"controller", "directive"}
  THEN MatchCall(primary.content, primary.type)
  ELSE <<>>

\* The base name of a primary file without its definition suffix.
StrippedBaseName(primary) ==
  IF entry = "main" THEN PathBasenameExt(primary.path, JsExt)
  ELSE PathBasenameExt(primary.path, ComponentSuffix)

\* The primary files grouping is to make units of.
PrimaryFiles == {k \in DOMAIN Kept : Kept[k].type \in
                   (IF entry = "main" THEN {"controller", "directive"} ELSE {"component"})}

\* C23: grouping is never aborted for a name, every primary file gets a
\* unit, and the unit's name is the name its content declares, or, where it
\* declares none, its base name without the definition suffix.
C23_NameDeclaredOrBaseName ==
  (PipelineRun /\ Over(GroupingStage)) =>
    /\ ~(pc = "failed" /\ failure.at = GroupingStage)
    /\ Len(NamedUnits) = Cardinality(PrimaryFiles)
    /\ \A i \in DOMAIN NamedUnits :
         NamedUnits[i].name =
           IF DeclaredName(NamedUnits[i].primary) # <<>>
           THEN DeclaredName(NamedUnits[i].primary)
           ELSE StrippedBaseName(NamedUnits[i].primary)

\* The buckets of the run are made: by grouping in main, by the filters of
\* convertAngularToReact once the scan has returned.
BucketsMade == IF entry = "main" THEN GroupingReturned ELSE ScanReturned

\* The positions in the scan's list of the file at path p.
ScanPositions(p) == {k \in DOMAIN Kept : Kept[k].path = p}

\* C24: every entry of a bucket is a file of the scan's list as the scan
\* gave it, and of two entries of one bucket the one scanned first comes
\* first.
C24_BucketsKeepScanOrder ==
  (PipelineRun /\ BucketsMade) =>
    \A b \in DOMAIN Buckets :
      /\ \A i \in DOMAIN Buckets[b] :
           \E k \in ScanPositions(Buckets[b][i].path) : Kept[k] = Buckets[b][i]
      /\ \A i, j \in DOMAIN Buckets[b] :
           i < j =>
             \A k \in ScanPositions(Buckets[b][i].path) :
               \A m \in ScanPositions(Buckets[b][j].path) : k < m

\* a bucket of two files has been made from a list in which a file of
\* another kind was scanned between the two
C24_Witness ==
  /\ PipelineRun
  /\ BucketsMade
  /\ \E b \in DOMAIN Buckets :
       /\ Len(Buckets[b]) >= 2
       /\ \E k \in DOMAIN Kept :
            /\ \A i \in DOMAIN Buckets[b] : Buckets[b][i].path # Kept[k].path
            /\ \E x \in ScanPositions(Buckets[b][1].path) : x < k
            /\ \E y \in ScanPositions(Buckets[b][2].path) : k < y

\* The base name of a file without its extension and, for a file of an
\* Angular component, without the suffix .component before it.
BareName(p) ==
  LET b == PathBasenameExt(p, PathExtname(p))
  IN IF entry # "main" /\ EndsWith(b, <<".", "component">>) /\ b # <<".", "component">>
     THEN SubSeq(b, 1, Len(b) - 2)
     ELSE b

\* What the grouper of convertAngularToReact associates with the component
\* files of the scan's list, before it names the unit.
ComponentAssociations ==
  LET IsComponent(f) == IsType(f, "component")
      IsTemplate(f) == IsType(f, "template")
      IsStyle(f) == IsType(f, "style")
      cfs == classifiedFiles
      components == Filter(cfs, {pos \in DOMAIN cfs : IsComponent(cfs[pos])})
      templates == Filter(cfs, {pos \in DOMAIN cfs : IsTemplate(cfs[pos])})
      styles == Filter(cfs, {pos \in DOMAIN cfs : IsStyle(cfs[pos])})
      disk == DiskFiles(AngularProjectPath, tree)
      group == [i \in DOMAIN components |->
                  ComponentGroup(components[i], templates, styles, disk, <<>>)]
  IN {[primary |-> group[i].component.path, file |-> group[i].template.path,
       kinds |-> {"template"}] : i \in DOMAIN group}
     \cup {[primary |-> group[i].component.path, file |-> group[i].style.path,
            kinds |-> {"style"}] : i \in DOMAIN group}

\* The associations made by naming convention: the primary file, the file
\* associated with it, and the categories of the files it was chosen from.
ConventionAssociations ==
  {a \in (IF entry = "main"
          THEN {[primary |-> JsGroups[i].primary.path, file |-> JsGroups[i].template.path,
                 kinds |-> {"html"}] :
                  i \in {j \in DOMAIN JsGroups :
                           TemplateByUrl(JsGroups[j].primary, HtmlFiles) = Undefined}}
               \cup {[primary |-> JsGroups[i].primary.path, file |-> JsGroups[i].css.path,
                      kinds |-> {"css"}] : i \in DOMAIN JsGroups}
          ELSE ComponentAssociations) : a.file # <<>>}

\* C25: a file associated by naming convention has the base name of the
\* primary file, suffixes stripped, and no file of its kind scanned before
\* it has that name.
C25_ConventionMatchesBaseName ==
  (PipelineRun /\ Over(GroupingStage)) =>
    \A a \in ConventionAssociations :
      /\ BareName(a.file) = BareName(a.primary)
      /\ \A k \in ScanPositions(a.file) :
           \A m \in 1..(k - 1) :
             Kept[m].type \in a.kinds => BareName(Kept[m].path) # BareName(a.primary)

\* The converters of the run.
ConvertersOfRun == {c \in Converters : StageIndex(c) > 0}

\* The path of the item result entry r of converter c was made for.
SourceOf(c, r) ==
  IF c = "convertComponents" THEN r.originalComponent.component.path
  ELSE r.originalPath

\* C26: the results of a converter are in the order of its input list: of
\* two results the one that comes first is that of the item that comes
\* first in the input, whichever of the collaborator's calls succeed or
\* fail.
C26_ResultsInInputOrder ==
  \A c \in ConvertersOfRun :
    \A i, j \in DOMAIN ResultOf(c) :
      i < j =>
        \E a, b \in DOMAIN InputPaths(c) :
          /\ a < b
          /\ InputPaths(c)[a] = SourceOf(c, ResultOf(c)[i])
          /\ InputPaths(c)[b] = SourceOf(c, ResultOf(c)[j])

\* a converter has returned two results, the collaborator having failed for
\* the first item and not for the second
C26_Witness ==
  \E c \in ConvertersOfRun :
    /\ Returned(c)
    /\ Len(ResultOf(c)) >= 2
    /\ InputPaths(c)[1] # InputPaths(c)[2]
    /\ \E n \in FailedCalls(c) : handed[n].item = InputPaths(c)[1]
    /\ \E n \in DOMAIN handed :
         /\ handed[n].converter = c
         /\ handed[n].item = InputPaths(c)[2]
         /\ handed[n].outcome # "fail"

\* The content of the scanned file at path p, where it can be read.
Readable(p) ==
  \E f \in DiskFiles(AngularProjectPath, tree) : f.path = p /\ f.ok

ContentOf(p) == ReadFile(DiskFiles(AngularProjectPath, tree), p).content

\* C27: the output path of every service convertServices returns a result
\* for, its placeholder for a failed conversion included, ends with
\* .context.js when the content of the service holds a state token and with
\* .hooks.js when it holds none.
C27_StateTokensFixTheOutputPath ==
  entry = "convertAngularToReact" =>
    \A i \in DOMAIN converted.services :
      LET r == converted.services[i]
      IN Readable(r.originalPath) =>
           IF ShouldBeContextProvider(ContentOf(r.originalPath))
           THEN EndsWith(r.outputPath, <<".", "context", ".", "js">>)
           ELSE EndsWith(r.outputPath, <<".", "hooks", ".", "js">>)

\* The stages that write the output files.
WritingStages == {"writeOutputFiles", "writeOutputFilesJS"}

\* C28: no output file is written before every conversion stage has
\* returned, and a run aborted before writing has written no file.
C28_NothingWrittenBeforeConversionIsOver ==
  PipelineRun =>
    /\ written # <<>> => ReachedWriting
    /\ (pc = "failed" /\ failure.at \notin WritingStages) => written = <<>>

\* a run has been aborted in a conversion stage after the collaborator was
\* called for an item, and nothing is written
C28_Witness ==
  /\ PipelineRun
  /\ pc = "failed"
  /\ failure.at \in Converters
  /\ handed # <<>>
  /\ written = <<>>

\* The calls of the collaborator by generateRouterStructure.
RouterCalls == {n \in DOMAIN handed : handed[n].converter = "generateRouterStructure"}

\* C29: with an API key generateRouterStructure always returns: the run is
\* not aborted in it, what it returns holds router.js and App.js, the
\* collaborator's where its call succeeded and the basic configuration
\* otherwise, and a run that ends has written both.
C29_RouterStructureAlwaysReturned ==
  (entry = "convertAngularToReact" /\ options.openAiApiKey) =>
    /\ ~(pc = "failed" /\ failure.at = "generateRouterStructure")
    /\ Returned("generateRouterStructure") =>
         /\ {router.files[i].kind : i \in DOMAIN router.files} = {"router", "app"}
         /\ router.kind =
              IF \E n \in RouterCalls : handed[n].outcome = "ok"
              THEN "generated" ELSE "basic"
    /\ pc = "done" =>
         \A f \in {"router", "app"} : \E i \in DOMAIN written : written[i].kind = f

\* The converted items of the run: what each was made from and the path its
\* output is written to.
ConvertedItems ==
  LET Items(c, results) ==
        {[converter |-> c, n |-> i, source |-> SourceOf(c, results[i]),
          outputPath |-> results[i].outputPath] : i \in DOMAIN results}
  IN IF entry = "main"
     THEN Items("convertControllers", converted.controllers)
          \cup Items("convertDirectives", converted.directives)
          \cup Items("convertServicesJS", converted.services)
          \cup Items("convertFilters", converted.filters)
     ELSE Items("convertComponents", converted.components)
          \cup Items("convertServices", converted.services)
          \cup Items("convertPipes", converted.pipes)

\* The paths of the files the run generates beside the converted items.
GeneratedPaths ==
  IF entry = "main" THEN {<<"router", ".", "js">>}
  ELSE {PathJoin(base, name) :
          base \in {OutputPath} \cup ({options.outputPath} \ {UndefinedPath}),
          name \in {<<"router", ".", "js">>, <<"App", ".", "js">>,
                    <<"package", ".", "json">>, <<"index", ".", "js">>,
                    <<"index", ".", "html">>}}

\* C30: two converted items made from different files never have the same
\* output path, and no converted item has the path of a generated file.
C30_OutputPathsAreDistinct ==
  \A x \in ConvertedItems :
    /\ x.outputPath \notin GeneratedPaths
    /\ \A y \in ConvertedItems : x.source # y.source => x.outputPath # y.outputPath

====
